---- MODULE Spec2Model ----
(***************************************************************************)
(* Model of the SHL assessment recommender (src/recommender.py).           *)
(*                                                                         *)
(* One AssessmentRecommender is followed from construction through         *)
(* load_index() and one recommend() call: query embedding, FAISS search,   *)
(* candidate collection with URL de-duplication, Gemini re-ranking on a    *)
(* worker thread with a timeout, light type balancing and the final        *)
(* truncation.                                                             *)
(*                                                                         *)
(* Representation                                                          *)
(*   - a url is a positive number; what a record without url holds       *)
(*     under 'URL' and 'url' is one of NoUrl, MissingUrl and NoneUrl, and  *)
(*     the key that line 189 computes is NoUrl for '' and NoneUrl for None;*)
(*   - a category tag ('Test Type') is a string; "" is a missing or empty  *)
(*     tag, "NaN" a pandas NaN on disk, "None" the value load_index()      *)
(*     leaves after normalising a NaN;                                     *)
(*   - a similarity is an integer (the inner product of the normalised     *)
(*     query vector with the stored vector, in arbitrary units);           *)
(*   - a Gemini response is a sequence of characters.                      *)
(***************************************************************************)
EXTENDS Integers, Sequences, FiniteSets, TLC

VARIABLES
    diskMetadata,   \* the pickled metadata list (data/shl_index.pkl)
    vectors,        \* the FAISS index file: vectors[i] is the score of offset i-1
    disk,           \* the two files: "ok" | "missing" | "corrupt_index" |
                    \* "corrupt_metadata"
    index_loaded,   \* self.index is not None
    metadata,       \* self.metadata
    load_ok,        \* load_index() has returned normally
    query,          \* recommend(query, top_k, balance_types, use_reranking)
    top_k,
    balance_types,
    use_reranking,
    pc,             \* position of the thread that runs recommend()
    provider,       \* what the embedding provider did on each call convention
    embedding,      \* "none" | "vec" | "zero" | "odd"
    embed_calls,    \* calls of an embedding API made by generate_query_embedding
    hits,           \* zip(similarities[0], indices[0]) of index.search
    all_candidates,
    candidates_for_reranking,
    llm,            \* worker thread of model.generate_content:
                    \* "idle" | "running" | "returned" | "raised" | "finished"
    llm_calls,      \* calls of model.generate_content submitted
    response,       \* ranking_text, the text future.result() delivered
    timed_out,      \* future.result() raised TimeoutError
    rerank_ok,      \* _rerank_with_gemini returned at line 542
    ranking_indices, \* the 0-based indices parsed from the response
    reranked,       \* the re-ordered list of lines 515-531, before [:top_k]
    reranked_results,
    balance_called, \* _balance_types_light was called (on reranked_results)
    balance_out,    \* its return value
    result,         \* the list recommend() returned
    raised,         \* the exception recommend() let escape ("" when none)
    api_key,        \* GEMINI_API_KEY is set
    recommender,    \* api.recommender: "None" | "instance"
    constructed,    \* AssessmentRecommender() calls that returned
    loads,          \* load_index() calls that returned
    handled,        \* requests answered so far
    last,           \* the last request and its answer
    request,        \* the request the event loop is serving, and where its
                    \* handler is
    rate_limit,     \* the N of RATE_LIMIT = "N/minute"
    window,         \* POST /recommend requests the limiter has counted in
                    \* the current minute
    calls,          \* the recommend() invocations that run side by side on one
                    \* recommender: calls[t] holds the locals of invocation t
    build           \* the run of embedder.py: its position and its locals

files == <<diskMetadata, vectors, disk>>

loaded == <<index_loaded, metadata, load_ok>>

args == <<query, top_k, balance_types, use_reranking>>

collected == <<provider, embedding, embed_calls, hits, all_candidates,
               candidates_for_reranking>>

gemini == <<llm, llm_calls, response, timed_out, rerank_ok, ranking_indices, reranked>>

outcome == <<balance_called, balance_out, result, raised>>

server == <<api_key, recommender, constructed, loads, handled, last, request,
            rate_limit, window>>

vars == <<files, loaded, args, pc, collected, gemini, reranked_results, outcome,
          server, calls, build>>

-----------------------------------------------------------------------------
(* Bounds of the model.                                                    *)

\* Largest number of records of a small catalog.
MaxMeta == 2
\* Largest number of records that follow the technical block of a large
\* catalog.
MaxTail == 3
\* Largest top_k asked of a small catalog.
MaxTopK == 2
\* Longest Gemini response given to _rerank_with_gemini called on its own.
MaxResp == 5
\* Longest candidate list given to _rerank_with_gemini called on its own
\* (the lists have MaxCand - 1 or MaxCand candidates).
MaxCand == 3
\* Requests answered by the web service.
MaxRequests == 2
\* Longest Gemini response given to the parser of _rerank_with_gemini.
MaxText == 5
\* recommend() invocations that run side by side.
MaxCalls == 2

(* Program constants.                                                      *)

\* len(reranked_results) >= 8
MinTechnical == 8
\* num_to_add = min(2, len(p_candidates))
MaxAdd == 2
\* search_k = top_k * 5 if use_reranking
RerankFactor == 5
\* top_k * 3 if balance_types
BalanceFactor == 3
\* all_candidates[:min(top_k * 2, ...)]
PoolFactor == 2
\* result.get('URL', '') or result.get('url', '').  What a record (after
\* load_index, which turns a NaN into None) holds for its url is
\*   a positive number: a url under 'URL', or under 'url' when 'URL' is
\*                      absent, None or '';
\*   NoUrl:      '' under 'URL', and 'url' absent or '';
\*   MissingUrl: 'URL' absent or None, and 'url' absent or '';
\*   NoneUrl:    None under 'url', and 'URL' absent, None or ''.
\* As a key, NoUrl is the string '' and NoneUrl is None.
NoUrl == 0
MissingUrl == -1
NoneUrl == -2
\* src/api.py line 168: os.getenv("RATE_LIMIT", "60/minute").
DefaultRateLimit == 60

-----------------------------------------------------------------------------
(* Generic helpers.                                                        *)

Min(a, b) == IF a <= b THEN a ELSE b

Max(a, b) == IF a >= b THEN a ELSE b

\* Python's s[:n] for n >= 0.
Take(s, n) == SubSeq(s, 1, Min(n, Len(s)))

\* Python's s[:n] for any integer n (a negative n counts from the end).
Slice(s, n) == IF n >= 0 THEN Take(s, n) ELSE Take(s, Max(0, Len(s) + n))

Range(s) == {s[i] : i \in 1..Len(s)}

-----------------------------------------------------------------------------
(* Queries.  A query is a sequence of words; a keyword test               *)
(* `keyword in query_lower` holds when some lower-cased word of the query  *)
(* contains the keyword as a substring.                                    *)

\* str.lower() on the words used by the model.
Lower(w) ==
    CASE w = "Java" -> "java"
      [] w = "Developer" -> "developer"
      [] w = "Leadership" -> "leadership"
      [] OTHER -> w

\* The role keywords that occur as substrings of a lower-cased word.
KeywordsIn(w) ==
    CASE w = "developer" -> {"developer"}
      [] w = "engineer" -> {"engineer"}
      [] w = "leadership" -> {"lead"}
      [] w = "senior" -> {"senior"}
      [] OTHER -> {}

role_keywords ==
    {"engineer", "developer", "programmer", "manager", "lead", "senior", "analyst"}

is_role_query(q) ==
    \E i \in 1..Len(q) : KeywordsIn(Lower(q[i])) \cap role_keywords # {}

-----------------------------------------------------------------------------
(* Sorting.  Python's sorted(..., key=similarity, reverse=True) is stable: *)
(* elements of equal similarity keep their order.                          *)

RECURSIVE InsertBySimilarity(_, _)
\* s is sorted descending; x goes after every element that is >= x.
InsertBySimilarity(x, s) ==
    IF s = <<>> THEN <<x>>
    ELSE IF Head(s).similarity >= x.similarity
         THEN <<Head(s)>> \o InsertBySimilarity(x, Tail(s))
         ELSE <<x>> \o s

RECURSIVE SortFrom(_, _)
SortFrom(s, acc) ==
    IF s = <<>> THEN acc
    ELSE SortFrom(Tail(s), InsertBySimilarity(Head(s), acc))

SortBySimilarityDesc(s) == SortFrom(s, <<>>)

IsSortedDesc(s) ==
    \A i \in 1..(Len(s) - 1) : s[i].similarity >= s[i + 1].similarity

-----------------------------------------------------------------------------
(* load_index(): NaN clean-up of the metadata.                             *)

CleanValue(v) == IF v = "NaN" \/ v = "nan" THEN "None" ELSE v

CleanMetadata(md) ==
    [i \in 1..Len(md) |-> [url |-> md[i].url, type |-> CleanValue(md[i].type)]]

-----------------------------------------------------------------------------
(* index.search(query_embedding, search_k) of a flat inner-product index.  *)

\* Similarity FAISS reports in the slots it could not fill (label -1).
PadSimilarity == -1

\* A zero query vector (the embedding fallback) has inner product 0 with
\* every stored vector.
HitSimilarity(vecs, emb, i) == IF emb = "zero" THEN 0 ELSE vecs[i]

\* Variant of search_k_of: the over-fetch is 5 * top_k whatever the flags.
search_k_always_largest(k, rerank, balance) == k * RerankFactor

search_k_of(k, rerank, balance) ==
    IF rerank THEN k * RerankFactor
    ELSE IF balance THEN k * BalanceFactor ELSE k

RECURSIVE PadHits(_)
PadHits(n) ==
    IF n <= 0 THEN <<>>
    ELSE <<[similarity |-> PadSimilarity, idx |-> -1]>> \o PadHits(n - 1)

\* The stored vectors ranked by similarity (ties in offset order), cut to k
\* and padded with (-1) labels when the index holds fewer than k vectors.
Search(vecs, emb, k) ==
    LET all == [i \in 1..Len(vecs) |->
                   [similarity |-> HitSimilarity(vecs, emb, i), idx |-> i - 1]]
        ranked == SortBySimilarityDesc(all)
    IN  Take(ranked, k) \o PadHits(k - Len(vecs))

\* Variant of CandidatesForReranking: the pool holds top_k / 2 candidates.
CandidatesForRerankingHalved(all, k) == Take(all, Min(k \div PoolFactor, Len(all)))

-----------------------------------------------------------------------------
(* Candidate collection (recommend, lines 177-194).                        *)

\* metadata[idx] with Python's indexing: a negative idx counts from the end.
\* The result is a position of md, or 0 when Python raises IndexError.
PyIndex(md, idx) ==
    IF idx >= 0 THEN (IF idx < Len(md) THEN idx + 1 ELSE 0)
    ELSE (IF Len(md) + idx >= 0 THEN Len(md) + idx + 1 ELSE 0)

\* Line 189, `result.get('URL', '') or result.get('url', '')`: the key under
\* which a record is remembered in seen_urls.  A truthy 'URL' is the key;
\* otherwise the key is what .get('url', '') gives: the url, '' when the
\* entry is absent or empty, None when the entry is None.
url_key(u) == IF u = MissingUrl THEN NoUrl ELSE u

\* result = self.metadata[idx].copy(); result['similarity'] = float(similarity);
\* `url` is the key of line 189.
MakeCandidate(md, pos, sim) ==
    [url |-> url_key(md[pos].url), type |-> md[pos].type, similarity |-> sim,
     rec |-> pos, ranked |-> FALSE, rerank_score |-> 0, rerank_position |-> 0]

RECURSIVE CollectFrom(_, _, _, _)
\* The loop over the hits: acc.list is all_candidates, acc.seen is seen_urls,
\* acc.error is set when metadata[idx] raises.
CollectFrom(hs, md, i, acc) ==
    IF i > Len(hs) \/ acc.error # "" THEN acc
    ELSE
        LET h == hs[i] IN
        IF h.idx >= Len(md) THEN CollectFrom(hs, md, i + 1, acc)
        ELSE IF PyIndex(md, h.idx) = 0
        THEN [acc EXCEPT !.error = "IndexError"]
        ELSE
            LET c == MakeCandidate(md, PyIndex(md, h.idx), h.similarity) IN
            IF c.url \in acc.seen THEN CollectFrom(hs, md, i + 1, acc)
            ELSE CollectFrom(hs, md, i + 1,
                     [acc EXCEPT !.list = Append(@, c), !.seen = @ \cup {c.url}])

RECURSIVE CollectAllFrom(_, _, _, _)
CollectAllFrom(hs, md, i, acc) ==
    IF i > Len(hs) \/ acc.error # "" THEN acc
    ELSE
        LET h == hs[i] IN
        IF h.idx >= Len(md) THEN CollectAllFrom(hs, md, i + 1, acc)
        ELSE IF PyIndex(md, h.idx) = 0
        THEN [acc EXCEPT !.error = "IndexError"]
        ELSE CollectAllFrom(hs, md, i + 1,
                 [acc EXCEPT !.list = Append(@, MakeCandidate(md, PyIndex(md, h.idx),
                                                              h.similarity))])

\* Variant of Collect: the seen_urls test is missing.
CollectKeepingDuplicates(hs, md) ==
    CollectAllFrom(hs, md, 1, [list |-> <<>>, seen |-> {}, error |-> ""])

RECURSIVE CollectLastFrom(_, _, _, _)
CollectLastFrom(hs, md, i, acc) ==
    IF i > Len(hs) \/ acc.error # "" THEN acc
    ELSE
        LET h == hs[i] IN
        IF h.idx >= Len(md) THEN CollectLastFrom(hs, md, i + 1, acc)
        ELSE IF PyIndex(md, h.idx) = 0
        THEN [acc EXCEPT !.error = "IndexError"]
        ELSE
            LET c == MakeCandidate(md, PyIndex(md, h.idx), h.similarity) IN
            IF c.url \in acc.seen
            THEN CollectLastFrom(hs, md, i + 1,
                     [acc EXCEPT !.list = [n \in 1..Len(@) |->
                                              IF @[n].url = c.url THEN c ELSE @[n]]])
            ELSE CollectLastFrom(hs, md, i + 1,
                     [acc EXCEPT !.list = Append(@, c), !.seen = @ \cup {c.url}])

\* Variant of Collect: a later hit of a seen url overwrites the kept one.
CollectKeepingLast(hs, md) ==
    CollectLastFrom(hs, md, 1, [list |-> <<>>, seen |-> {}, error |-> ""])

RECURSIVE CollectUrlsOnceFrom(_, _, _, _)
CollectUrlsOnceFrom(hs, md, i, acc) ==
    IF i > Len(hs) \/ acc.error # "" THEN acc
    ELSE
        LET h == hs[i] IN
        IF h.idx >= Len(md) THEN CollectUrlsOnceFrom(hs, md, i + 1, acc)
        ELSE IF PyIndex(md, h.idx) = 0
        THEN [acc EXCEPT !.error = "IndexError"]
        ELSE
            LET c == MakeCandidate(md, PyIndex(md, h.idx), h.similarity) IN
            IF c.url > 0 /\ c.url \in acc.seen
            THEN CollectUrlsOnceFrom(hs, md, i + 1, acc)
            ELSE CollectUrlsOnceFrom(hs, md, i + 1,
                     [acc EXCEPT !.list = Append(@, c), !.seen = @ \cup {c.url}])

\* Variant of Collect: only a record that has a url is skipped when its key
\* was seen (`if url and url in seen_urls`).
CollectSkippingUrlsOnly(hs, md) ==
    CollectUrlsOnceFrom(hs, md, 1, [list |-> <<>>, seen |-> {}, error |-> ""])

Collect(hs, md) == CollectFrom(hs, md, 1, [list |-> <<>>, seen |-> {}, error |-> ""])

\* all_candidates[:min(top_k * 2, len(all_candidates))]
CandidatesForReranking(all, k) == Take(all, Min(k * PoolFactor, Len(all)))

HasDuplicateUrl(s) ==
    \E i, j \in 1..Len(s) : i # j /\ s[i].url = s[j].url

-----------------------------------------------------------------------------
(* Parsing of the Gemini response (_rerank_with_gemini, lines 483-507).    *)
(* A response is a sequence of characters.  "x" is a letter, "[" any of    *)
(* the brackets the code removes, and the element "ranking" stands for one *)
(* of the prefix words of line 486 written out in letters.                 *)

Digits == {"0", "1", "2", "3", "4", "5", "6", "7", "8", "9"}

IsDigit(c) == c \in Digits

IsSpace(c) == c = " "

\* \w of the regular expressions: digits and letters.
IsWordChar(c) == IsDigit(c) \/ c = "x" \/ c = "ranking"

DigitValue(c) ==
    CASE c = "0" -> 0 [] c = "1" -> 1 [] c = "2" -> 2 [] c = "3" -> 3
      [] c = "4" -> 4 [] c = "5" -> 5 [] c = "6" -> 6 [] c = "7" -> 7
      [] c = "8" -> 8 [] c = "9" -> 9

RECURSIVE SkipSpaces(_, _)
\* The first position >= i of s that holds no space.
SkipSpaces(s, i) ==
    IF i <= Len(s) /\ IsSpace(s[i]) THEN SkipSpaces(s, i + 1) ELSE i

RECURSIVE DigitsEnd(_, _)
\* The first position >= i of s that holds no digit.
DigitsEnd(s, i) ==
    IF i <= Len(s) /\ IsDigit(s[i]) THEN DigitsEnd(s, i + 1) ELSE i

RECURSIVE StripTrailing(_)
StripTrailing(s) ==
    IF s # <<>> /\ IsSpace(s[Len(s)]) THEN StripTrailing(SubSeq(s, 1, Len(s) - 1))
    ELSE s

\* str.strip()
Strip(s) == StripTrailing(SubSeq(s, SkipSpaces(s, 1), Len(s)))

\* re.sub(r'^(ranking|order|...):?\s*', '', text, flags=re.IGNORECASE)
StripPrefix(s) ==
    IF s # <<>> /\ s[1] = "ranking"
    THEN LET afterColon == IF Len(s) >= 2 /\ s[2] = ":" THEN 3 ELSE 2
         IN  SubSeq(s, SkipSpaces(s, afterColon), Len(s))
    ELSE s

RECURSIVE RemoveBrackets(_)
\* re.sub(r'[\[\]()]', '', text)
RemoveBrackets(s) ==
    IF s = <<>> THEN <<>>
    ELSE (IF Head(s) = "[" THEN <<>> ELSE <<Head(s)>>) \o RemoveBrackets(Tail(s))

RECURSIVE RunEnd(_, _)
\* j is the position after a number; the position after the longest
\* continuation (\s*,\s*\d+)* that starts at j.
RunEnd(s, j) ==
    LET c == SkipSpaces(s, j) IN
    IF c <= Len(s) /\ s[c] = ","
    THEN LET d == SkipSpaces(s, c + 1) IN
         IF d <= Len(s) /\ IsDigit(s[d]) THEN RunEnd(s, DigitsEnd(s, d)) ELSE j
    ELSE j

\* \d+(?:\s*,\s*\d+)+ matches at position i.
RunMatchesAt(s, i) ==
    /\ i <= Len(s)
    /\ IsDigit(s[i])
    /\ RunEnd(s, DigitsEnd(s, i)) > DigitsEnd(s, i)

\* Variant of NumberMatch: the text is not cut to its first run.
NumberMatchWholeText(s) == s

\* re.search(r'(\d+(?:\s*,\s*\d+)+)', text): the leftmost match, or the text
\* itself when there is none (cleaned_text is then left as it is).
NumberMatch(s) ==
    LET starts == {i \in 1..Len(s) : RunMatchesAt(s, i)} IN
    IF starts = {} THEN s
    ELSE LET i == CHOOSE m \in starts : \A n \in starts : m <= n
         IN  SubSeq(s, i, RunEnd(s, DigitsEnd(s, i)) - 1)

RECURSIVE DecimalValue(_)
\* int(n) of a digit string.
DecimalValue(ds) ==
    IF ds = <<>> THEN 0
    ELSE DecimalValue(SubSeq(ds, 1, Len(ds) - 1)) * 10 + DigitValue(ds[Len(ds)])

RECURSIVE FindNumbers(_, _)
\* re.findall(r'\b\d+\b', text), as integers: the maximal digit runs that
\* touch no letter on either side.
FindNumbers(s, i) ==
    IF i > Len(s) THEN <<>>
    ELSE IF ~IsDigit(s[i]) THEN FindNumbers(s, i + 1)
    ELSE
        LET e == DigitsEnd(s, i)
            boundedLeft  == i = 1 \/ ~IsWordChar(s[i - 1])
            boundedRight == e > Len(s) \/ ~IsWordChar(s[e])
        IN  (IF boundedLeft /\ boundedRight
             THEN <<DecimalValue(SubSeq(s, i, e - 1))>> ELSE <<>>)
            \o FindNumbers(s, e)

\* The `numbers` list of line 496 for response text `text`.
ExtractNumbers(text) ==
    FindNumbers(NumberMatch(RemoveBrackets(StripPrefix(Strip(Strip(text))))), 1)

RECURSIVE RankingFrom(_, _, _)
\* Lines 501-507: 0-based indices, valid and not seen before, in order.
RankingFrom(nums, n, acc) ==
    IF nums = <<>> THEN acc
    ELSE LET idx == Head(nums) - 1 IN
         IF 0 <= idx /\ idx < n /\ idx \notin Range(acc)
         THEN RankingFrom(Tail(nums), n, Append(acc, idx))
         ELSE RankingFrom(Tail(nums), n, acc)

RankingIndices(text, n) == RankingFrom(ExtractNumbers(text), n, <<>>)

\* Variant of RankingAccepted: a ranking one index short is accepted too.
RankingAcceptedOneShort(candidates, k, text) ==
    /\ ExtractNumbers(text) # <<>>
    /\ Len(RankingIndices(text, Len(candidates))) + 1 >= Min(k, Len(candidates))

-----------------------------------------------------------------------------
(* _rerank_with_gemini (lines 362-553).                                    *)

RECURSIVE ReverseSeq(_)
ReverseSeq(s) == IF s = <<>> THEN <<>> ELSE ReverseSeq(Tail(s)) \o <<Head(s)>>

\* Variant of SimilarityFallback: the candidates are not sorted.
SimilarityFallbackUnsorted(candidates, k) == Slice(candidates, k)

\* Variant of SimilarityFallback: reverse=True is missing.
SimilarityFallbackAscending(candidates, k) ==
    Slice(ReverseSeq(SortBySimilarityDesc(ReverseSeq(candidates))), k)

\* sorted(candidates, key=similarity, reverse=True)[:top_k]
SimilarityFallback(candidates, k) == Slice(SortBySimilarityDesc(candidates), k)

\* Variant of RankedPart: positions count from 0.
RankedPartZeroBased(candidates, ranking) ==
    [p \in 1..Len(ranking) |->
        [candidates[ranking[p] + 1] EXCEPT
            !.ranked = TRUE,
            !.rerank_score = Len(ranking) - p + 1,
            !.rerank_position = p - 1]]

\* Variant of RankedPart: the scores count down from the number of
\* candidates.
RankedPartScoredFromAll(candidates, ranking) ==
    [p \in 1..Len(ranking) |->
        [candidates[ranking[p] + 1] EXCEPT
            !.ranked = TRUE,
            !.rerank_score = Len(candidates) - p + 1,
            !.rerank_position = p]]

\* Lines 516-522: the candidates the response ranked, in its order.
RankedPart(candidates, ranking) ==
    [p \in 1..Len(ranking) |->
        [candidates[ranking[p] + 1] EXCEPT
            !.ranked = TRUE,
            !.rerank_score = Len(ranking) - p + 1,
            !.rerank_position = p]]

RECURSIVE UnrankedPart(_, _, _)
\* Lines 525-531: the candidates the response left out, in their order.
UnrankedPart(candidates, ranking, i) ==
    IF i > Len(candidates) THEN <<>>
    ELSE (IF (i - 1) \in Range(ranking) THEN <<>>
          ELSE <<[candidates[i] EXCEPT
                     !.ranked = TRUE,
                     !.rerank_score = 0,
                     !.rerank_position = Len(ranking) + 1]>>)
         \o UnrankedPart(candidates, ranking, i + 1)

\* Variant of RankingAccepted: any number found in the response will do.
RankingAcceptedIfAnyNumber(candidates, k, text) == ExtractNumbers(text) # <<>>

\* Line 510: the parsed ranking is accepted.
RankingAccepted(candidates, k, text) ==
    /\ ExtractNumbers(text) # <<>>
    /\ Len(RankingIndices(text, Len(candidates))) >= Min(k, Len(candidates))

\* Lines 512-531: the list `reranked`, the ranked candidates followed by the
\* others.
Reordered(candidates, ranking) ==
    RankedPart(candidates, ranking) \o UnrankedPart(candidates, ranking, 1)

\* Lines 483-547: what _rerank_with_gemini returns for response text `text`.
RerankFromResponse(candidates, k, text) ==
    IF RankingAccepted(candidates, k, text)
    THEN Slice(Reordered(candidates, RankingIndices(text, Len(candidates))), k)
    ELSE SimilarityFallback(candidates, k)

-----------------------------------------------------------------------------
(* _balance_types_light (lines 225-276).  The result is a record: `error`  *)
(* names the exception that escapes ("" when none), `list` is the return   *)
(* value.                                                                  *)

\* str.upper() on the category tags used by the model.
Upper(t) ==
    CASE t = "k" -> "K"
      [] t = "p" -> "P"
      [] t = "h" -> "H"
      [] OTHER -> t

\* r.get('Test Type', ...).upper() raises AttributeError on None.
TypeRaises(c) == c.type = "None"

\* Lines 234-238.
types_in_results(rs) ==
    {Upper(rs[i].type) : i \in {j \in 1..Len(rs) : rs[j].type # ""}}

\* Lines 242 and 215.
has_rerank_scores(rs) == \E i \in 1..Len(rs) : rs[i].rerank_score > 0

RECURSIVE p_candidates_from(_, _, _)
\* Lines 260-262.
p_candidates_from(all, rs, i) ==
    IF i > Len(all) THEN <<>>
    ELSE (IF Upper(all[i].type) \in {"P", "H"} /\ all[i] \notin Range(rs)
          THEN <<all[i]>> ELSE <<>>)
         \o p_candidates_from(all, rs, i + 1)

p_candidates(all, rs) == p_candidates_from(all, rs, 1)

\* The guard of the replacement at lines 258-265 (no exception on the way).
BalanceReplaces(rs, all, q) ==
    /\ ~has_rerank_scores(rs)
    /\ ~({"K", "P"} \subseteq types_in_results(rs))
    /\ is_role_query(q)
    /\ "P" \notin types_in_results(rs)
    /\ Len(rs) >= MinTechnical
    /\ p_candidates(all, rs) # <<>>

\* Variant of balance_types_light: the rerank-score test is missing.
BalanceIgnoringRerankScores(rs, all, q, k) ==
    IF \E i \in 1..Len(rs) : TypeRaises(rs[i])
    THEN [error |-> "AttributeError", list |-> <<>>]
    ELSE IF {"K", "P"} \subseteq types_in_results(rs) THEN [error |-> "", list |-> rs]
    ELSE IF is_role_query(q) /\ "P" \notin types_in_results(rs)
    THEN IF \E i \in 1..Len(all) : TypeRaises(all[i])
         THEN [error |-> "AttributeError", list |-> <<>>]
         ELSE IF Len(rs) >= MinTechnical /\ p_candidates(all, rs) # <<>>
         THEN LET ps == p_candidates(all, rs)
                  num_to_add == Min(MaxAdd, Len(ps))
                  p_sorted == SortBySimilarityDesc(ps)
              IN  [error |-> "",
                   list |-> Slice(rs, k - num_to_add) \o Take(p_sorted, num_to_add)]
         ELSE [error |-> "", list |-> rs]
    ELSE [error |-> "", list |-> rs]

\* Variant of balance_types_light: the behavioral candidates are appended to
\* the whole list instead of replacing its tail.
BalanceAppending(rs, all, q, k) ==
    IF \E i \in 1..Len(rs) : TypeRaises(rs[i])
    THEN [error |-> "AttributeError", list |-> <<>>]
    ELSE IF has_rerank_scores(rs) THEN [error |-> "", list |-> rs]
    ELSE IF {"K", "P"} \subseteq types_in_results(rs) THEN [error |-> "", list |-> rs]
    ELSE IF is_role_query(q) /\ "P" \notin types_in_results(rs)
    THEN IF \E i \in 1..Len(all) : TypeRaises(all[i])
         THEN [error |-> "AttributeError", list |-> <<>>]
         ELSE IF Len(rs) >= MinTechnical /\ p_candidates(all, rs) # <<>>
         THEN LET ps == p_candidates(all, rs)
                  num_to_add == Min(MaxAdd, Len(ps))
                  p_sorted == SortBySimilarityDesc(ps)
              IN  [error |-> "", list |-> rs \o Take(p_sorted, num_to_add)]
         ELSE [error |-> "", list |-> rs]
    ELSE [error |-> "", list |-> rs]

\* Variant of balance_types_light: the behavioral candidates of lowest
\* similarity are taken.
BalanceAddingLowest(rs, all, q, k) ==
    IF \E i \in 1..Len(rs) : TypeRaises(rs[i])
    THEN [error |-> "AttributeError", list |-> <<>>]
    ELSE IF has_rerank_scores(rs) THEN [error |-> "", list |-> rs]
    ELSE IF {"K", "P"} \subseteq types_in_results(rs) THEN [error |-> "", list |-> rs]
    ELSE IF is_role_query(q) /\ "P" \notin types_in_results(rs)
    THEN IF \E i \in 1..Len(all) : TypeRaises(all[i])
         THEN [error |-> "AttributeError", list |-> <<>>]
         ELSE IF Len(rs) >= MinTechnical /\ p_candidates(all, rs) # <<>>
         THEN LET ps == p_candidates(all, rs)
                  num_to_add == Min(MaxAdd, Len(ps))
                  p_sorted == ReverseSeq(SortBySimilarityDesc(ps))
              IN  [error |-> "",
                   list |-> Slice(rs, k - num_to_add) \o Take(p_sorted, num_to_add)]
         ELSE [error |-> "", list |-> rs]
    ELSE [error |-> "", list |-> rs]

balance_types_light(rs, all, q, k) ==
    IF \E i \in 1..Len(rs) : TypeRaises(rs[i])
    THEN [error |-> "AttributeError", list |-> <<>>]
    ELSE IF has_rerank_scores(rs) THEN [error |-> "", list |-> rs]
    ELSE IF {"K", "P"} \subseteq types_in_results(rs) THEN [error |-> "", list |-> rs]
    ELSE IF is_role_query(q) /\ "P" \notin types_in_results(rs)
    THEN IF \E i \in 1..Len(all) : TypeRaises(all[i])
         THEN [error |-> "AttributeError", list |-> <<>>]
         ELSE IF Len(rs) >= MinTechnical /\ p_candidates(all, rs) # <<>>
         THEN LET ps == p_candidates(all, rs)
                  num_to_add == Min(MaxAdd, Len(ps))
                  p_sorted == SortBySimilarityDesc(ps)
              IN  [error |-> "",
                   list |-> Slice(rs, k - num_to_add) \o Take(p_sorted, num_to_add)]
         ELSE [error |-> "", list |-> rs]
    ELSE [error |-> "", list |-> rs]

\* Variant of FinalResult: the list is sorted by similarity in any case.
FinalResultAlwaysSorted(bal, k) == Slice(SortBySimilarityDesc(bal), k)

\* Lines 211-223 of recommend, after _balance_types_light returned `bal`.
FinalResult(bal, k) ==
    IF has_rerank_scores(bal) THEN Slice(bal, k)
    ELSE Slice(SortBySimilarityDesc(bal), k)

-----------------------------------------------------------------------------
(* Inputs explored by the model.                                           *)

\* The urls of freely chosen records.
Urls == {NoUrl, 1}

\* The category tags of freely chosen records of a small catalog.
SmallTypes == {"K", "NaN"}

\* The category tags of the records that follow the technical block.
TailTypes == {"K", "P", "H", "NaN"}

\* Vector scores (similarity to a successfully embedded query).
Scores == {0, 1}

\* A role query, and "" (blank: generate_query_embedding embeds "assessment"
\* in its place), which is also a query without role keyword.
Queries == {<<"Java", "Developer">>, <<>>}

\* Small catalogs: 1 to MaxMeta records, any url, any score.  (The index
\* builder cannot produce an empty index.)
SmallCatalogs ==
    UNION {[1..n -> [url : Urls, type : SmallTypes, score : Scores]] : n \in 1..MaxMeta}

\* A block of MinTechnical - 1 technical records with urls of their own and
\* the highest scores, followed by up to MaxTail records of any category.
TechnicalBlock ==
    [i \in 1..(MinTechnical - 1) |-> [url |-> 10 + i, type |-> "K", score |-> 9]]

TailRecords(n) ==
    {[i \in 1..n |-> [url |-> 20 + i, type |-> t[i], score |-> n - i]] :
        t \in [1..n -> TailTypes]}

LargeCatalogs == {TechnicalBlock \o t : t \in UNION {TailRecords(n) : n \in 0..MaxTail}}

RECURSIVE Numeral(_)
\* str(n) for n >= 0, as characters.
Numeral(n) ==
    LET d == <<"0", "1", "2", "3", "4", "5", "6", "7", "8", "9">>[(n % 10) + 1]
    IN  IF n < 10 THEN <<d>> ELSE Numeral(n \div 10) \o <<d>>

RECURSIVE DescendingRanking(_)
\* The response "n,n-1,...,1".
DescendingRanking(n) ==
    IF n <= 0 THEN <<>>
    ELSE IF n = 1 THEN <<"1">>
    ELSE Numeral(n) \o <<",">> \o DescendingRanking(n - 1)

RECURSIVE AscendingRanking(_)
\* The response "1,2,...,n".
AscendingRanking(n) ==
    IF n <= 0 THEN <<>>
    ELSE IF n = 1 THEN <<"1">>
    ELSE AscendingRanking(n - 1) \o <<",">> \o Numeral(n)

\* The Gemini responses of the pipeline, for n numbered candidates.
Responses(n) ==
    { <<"x">>,                       \* prose without numbers
      <<"1">>,                       \* a single index
      <<"2", ",", "2">>,             \* a repeated index
      DescendingRanking(n),          \* a full ranking, reversed
      AscendingRanking(n) }          \* a full ranking, in the given order

RECURSIVE SeqsUpTo(_, _)
\* All sequences over S of length at most n.
SeqsUpTo(S, n) ==
    IF n = 0 THEN {<<>>}
    ELSE LET shorter == SeqsUpTo(S, n - 1)
         IN  shorter \cup {Append(r, c) : r \in {q \in shorter : Len(q) = n - 1}, c \in S}

\* The responses given to _rerank_with_gemini called on its own, over the
\* characters 1, 2, 3, comma and a letter.
AllResponses == SeqsUpTo({"1", "2", "3", ",", "x"}, MaxResp)

\* Candidate lists given to _rerank_with_gemini called on its own: n
\* candidates with urls of their own, in similarity order or not.
DirectCandidates(n) ==
    {[i \in 1..n |-> [url |-> i, type |-> "K", similarity |-> sim[i], rec |-> i,
                      ranked |-> FALSE, rerank_score |-> 0, rerank_position |-> 0]] :
        sim \in {[i \in 1..n |-> n - i], [i \in 1..n |-> (i + 1) % 2]}}

-----------------------------------------------------------------------------
(* generate_query_embedding (lines 92-146).  `p` says what each of the     *)
(* three ways of calling the provider does when it is tried:               *)
(*   "vector"        it delivers a list of D numbers;                      *)
(*   "odd"           it delivers a value np.array() converts without       *)
(*                   raising to something else than a vector of D numbers  *)
(*                   (an empty list, null, a nested list, a short list);   *)
(*   "schema_error"  KeyError, TypeError or AttributeError is raised;      *)
(*   "error"         any other exception is raised.                        *)

CallOutcomes == {"vector", "odd", "schema_error", "error"}

Providers == CallOutcomes \X CallOutcomes \X CallOutcomes

\* np.array(value, dtype=np.float32) of what a call delivered.
AsArray(delivered) == IF delivered = "vector" THEN "vec" ELSE "odd"

\* Variant of generate_query_embedding: a failure of genai.embed_content
\* with a schema error is not retried another way.
EmbeddingWithoutRetry(p) ==
    IF p[1] \in {"vector", "odd"} THEN AsArray(p[1]) ELSE "zero"

\* The calls of an embedding API that generate_query_embedding makes:
\* genai.embed_content (line 111); after a schema error of it,
\* model.embed_content (line 121); after any failure of that one,
\* requests.post (line 133).
EmbeddingAttempts(p) ==
    IF p[1] # "schema_error" THEN 1
    ELSE IF p[2] \in {"vector", "odd"} THEN 2
    ELSE 3

\* Lines 101-146.
generate_query_embedding(p) ==
    IF p[1] \in {"vector", "odd"} THEN AsArray(p[1])
    ELSE IF p[1] = "error" THEN "zero"
    ELSE IF p[2] \in {"vector", "odd"} THEN AsArray(p[2])
    ELSE IF p[3] \in {"vector", "odd"} THEN AsArray(p[3])
    ELSE "zero"

\* The providers of the pipeline: every way works, or every way fails.
PipelineProviders == {<<"vector", "vector", "vector">>, <<"error", "error", "error">>}

-----------------------------------------------------------------------------
(* The state machine.                                                      *)

NoResult == <<>>

\* No request has been answered.
NoRequest == [kind |-> "none"]

\* No invocations run side by side.
NoCalls == <<>>

\* embedder.py is not running.
NoBuild == [pc |-> "idle"]

\* The web service plays no part.
ServerIdle ==
    /\ api_key = TRUE
    /\ recommender = "None"
    /\ constructed = 0
    /\ loads = 0
    /\ handled = 0
    /\ last = NoRequest
    /\ request = NoRequest
    /\ rate_limit = DefaultRateLimit
    /\ window = 0

Init ==
    /\ \E cat \in SmallCatalogs \cup LargeCatalogs :
          /\ diskMetadata = [i \in 1..Len(cat) |-> [url |-> cat[i].url, type |-> cat[i].type]]
          /\ vectors = [i \in 1..Len(cat) |-> cat[i].score]
          /\ top_k \in (IF Len(cat) > MaxMeta THEN {MinTechnical, MinTechnical + 1}
                        ELSE 1..MaxTopK)
    /\ disk = "ok"
    /\ query \in Queries
    /\ balance_types \in BOOLEAN
    /\ use_reranking \in BOOLEAN
    /\ index_loaded = FALSE
    /\ metadata = <<>>
    /\ load_ok = FALSE
    /\ pc = "new"
    /\ provider = <<>>
    /\ embedding = "none"
    /\ embed_calls = 0
    /\ hits = <<>>
    /\ all_candidates = <<>>
    /\ candidates_for_reranking = <<>>
    /\ llm = "idle"
    /\ llm_calls = 0
    /\ response = <<>>
    /\ timed_out = FALSE
    /\ rerank_ok = FALSE
    /\ ranking_indices = <<>>
    /\ reranked = <<>>
    /\ reranked_results = <<>>
    /\ balance_called = FALSE
    /\ balance_out = <<>>
    /\ result = NoResult
    /\ raised = ""
    /\ ServerIdle
    /\ calls = NoCalls
    /\ build = NoBuild

\* load_index() on readable files: read the index and the metadata, clean
\* NaN values.
LoadIndex ==
    /\ pc = "new"
    /\ disk = "ok"
    /\ index_loaded' = TRUE
    /\ metadata' = CleanMetadata(diskMetadata)
    /\ load_ok' = TRUE
    /\ pc' = "ready"
    /\ UNCHANGED <<files, args, collected, gemini, reranked_results, outcome, server,
                   calls, build>>

\* recommend() before load_index(): lines 162-163.
RecommendNotLoaded ==
    /\ pc \in {"new", "ready"}
    /\ ~index_loaded
    /\ pc' = "done"
    /\ raised' = "ValueError"
    /\ UNCHANGED <<files, loaded, args, collected, gemini, reranked_results,
                   balance_called, balance_out, result, server, calls, build>>

\* recommend() once self.index is set, line 166: generate_query_embedding
\* with a provider of P.
EmbedWith(P) ==
    /\ pc = "ready"
    /\ index_loaded
    /\ \E p \in P :
          /\ provider' = p
          /\ embedding' = generate_query_embedding(p)
          /\ embed_calls' = embed_calls + EmbeddingAttempts(p)
    /\ pc' = "search"
    /\ UNCHANGED <<files, loaded, args, hits, all_candidates,
                   candidates_for_reranking, gemini, reranked_results, outcome, server,
                   calls, build>>

EmbedQuery == EmbedWith(PipelineProviders)

\* Lines 174-197: search, collect, cut the pool for re-ranking.
SearchAndCollect ==
    /\ pc = "search"
    /\ LET hs == Search(vectors, embedding,
                        search_k_of(top_k, use_reranking, balance_types))
           got == Collect(hs, metadata)
       IN  /\ hits' = hs
           /\ IF got.error # ""
              THEN /\ raised' = got.error
                   /\ pc' = "done"
                   /\ UNCHANGED <<all_candidates, candidates_for_reranking>>
              ELSE /\ all_candidates' = got.list
                   /\ candidates_for_reranking' = CandidatesForReranking(got.list, top_k)
                   /\ pc' = IF use_reranking /\ Len(CandidatesForReranking(got.list, top_k)) > 0
                            THEN "rerank" ELSE "sort"
                   /\ UNCHANGED raised
    /\ UNCHANGED <<files, loaded, args, provider, embedding, embed_calls, gemini,
                   reranked_results, balance_called, balance_out, result, server,
                   calls, build>>

\* Lines 205-208: no re-ranking.
SortBySimilarity ==
    /\ pc = "sort"
    /\ reranked_results' = Slice(SortBySimilarityDesc(candidates_for_reranking), top_k)
    /\ pc' = "balance"
    /\ UNCHANGED <<files, loaded, args, collected, gemini, outcome, server, calls,
                   build>>

\* _rerank_with_gemini: an exception while the model object or the prompt is
\* built (lines 374-458) is caught at line 549.
PromptError ==
    /\ pc = "rerank"
    /\ reranked_results' = SimilarityFallback(candidates_for_reranking, top_k)
    /\ pc' = "balance"
    /\ UNCHANGED <<files, loaded, args, collected, gemini, outcome, server, calls,
                   build>>

\* Line 466: executor.submit(model.generate_content, prompt).
SubmitToGemini ==
    /\ pc = "rerank"
    /\ llm' = "running"
    /\ llm_calls' = llm_calls + 1
    /\ pc' = "wait"
    /\ UNCHANGED <<files, loaded, args, collected, response, timed_out,
                   rerank_ok, ranking_indices, reranked, reranked_results,
                   outcome, server, calls, build>>

\* The call returns in time with a response of R: future.result() delivers
\* it and lines 468-547 parse it.
RespondWith(R) ==
    /\ pc = "wait"
    /\ llm = "running"
    /\ \E r \in R :
          /\ response' = r
          /\ rerank_ok' = RankingAccepted(candidates_for_reranking, top_k, r)
          /\ ranking_indices' = RankingIndices(r, Len(candidates_for_reranking))
          /\ reranked' = IF RankingAccepted(candidates_for_reranking, top_k, r)
                         THEN Reordered(candidates_for_reranking,
                                        RankingIndices(r, Len(candidates_for_reranking)))
                         ELSE <<>>
          /\ reranked_results' = RerankFromResponse(candidates_for_reranking, top_k, r)
    /\ llm' = "returned"
    /\ pc' = "balance"
    /\ UNCHANGED <<files, loaded, args, collected, llm_calls, timed_out, outcome,
                   server, calls, build>>

GeminiResponds == RespondWith(Responses(Len(candidates_for_reranking)))

\* The call raises in time (or response.text does): lines 473-477.
GeminiRaises ==
    /\ pc = "wait"
    /\ llm = "running"
    /\ llm' = "raised"
    /\ reranked_results' = SimilarityFallback(candidates_for_reranking, top_k)
    /\ pc' = "balance"
    /\ UNCHANGED <<files, loaded, args, collected, llm_calls, response, timed_out,
                   rerank_ok, ranking_indices, reranked, outcome, server, calls,
                   build>>

\* future.result(timeout) raises TimeoutError while the call is running.  The
\* exception leaves the `with` block of line 465, whose exit is
\* executor.shutdown(wait=True): the thread joins the worker.
Timeout ==
    /\ pc = "wait"
    /\ llm = "running"
    /\ timed_out' = TRUE
    /\ pc' = "shutdown"
    /\ UNCHANGED <<files, loaded, args, collected, llm, llm_calls, response,
                   rerank_ok, ranking_indices, reranked, reranked_results, outcome,
                   server, calls, build>>

\* The abandoned call ends at last (it returns or raises; nobody reads it).
GeminiFinishesLate ==
    /\ pc = "shutdown"
    /\ llm = "running"
    /\ llm' = "finished"
    /\ UNCHANGED <<files, loaded, args, pc, collected, llm_calls, response,
                   timed_out, rerank_ok, ranking_indices, reranked, reranked_results,
                   outcome, server, calls, build>>

\* shutdown(wait=True) returns once the worker has ended; lines 469-472.
ShutdownReturns ==
    /\ pc = "shutdown"
    /\ llm # "running"
    /\ reranked_results' = SimilarityFallback(candidates_for_reranking, top_k)
    /\ pc' = "balance"
    /\ UNCHANGED <<files, loaded, args, collected, gemini, outcome, server, calls,
                   build>>

\* Lines 210-223: balance if asked and possible, sort unless re-ranked,
\* truncate, return.
BalanceAndReturn ==
    /\ pc = "balance"
    /\ pc' = "done"
    /\ IF balance_types /\ Len(all_candidates) > Len(reranked_results)
       THEN LET bal == balance_types_light(reranked_results, all_candidates,
                                           query, top_k)
            IN  /\ balance_called' = TRUE
                /\ IF bal.error # ""
                   THEN /\ raised' = bal.error
                        /\ UNCHANGED <<balance_out, result>>
                   ELSE /\ balance_out' = bal.list
                        /\ result' = FinalResult(bal.list, top_k)
                        /\ UNCHANGED raised
       ELSE /\ result' = Slice(reranked_results, top_k)
            /\ UNCHANGED <<balance_called, balance_out, raised>>
    /\ UNCHANGED <<files, loaded, args, collected, gemini, reranked_results, server,
                   calls, build>>

\* The steps of the thread that runs recommend().
CallerNext ==
    \/ LoadIndex
    \/ RecommendNotLoaded
    \/ EmbedQuery
    \/ SearchAndCollect
    \/ SortBySimilarity
    \/ PromptError
    \/ SubmitToGemini
    \/ Timeout
    \/ ShutdownReturns
    \/ BalanceAndReturn

\* The steps that depend on the Gemini call ending.
GeminiNext ==
    \/ GeminiResponds
    \/ GeminiRaises
    \/ GeminiFinishesLate

Next == CallerNext \/ GeminiNext

Spec == Init /\ [][Next]_vars

-----------------------------------------------------------------------------
(* _rerank_with_gemini called on its own, on any candidate list and any    *)
(* response.                                                               *)

InitRerank ==
    /\ diskMetadata = <<>>
    /\ vectors = <<>>
    /\ disk = "ok"
    /\ index_loaded = TRUE
    /\ metadata = <<>>
    /\ load_ok = TRUE
    /\ provider = <<>>
    /\ query = <<"Java", "Developer">>
    /\ top_k \in 1..MaxCand
    /\ balance_types = FALSE
    /\ use_reranking = TRUE
    /\ pc = "rerank"
    /\ embedding = "none"
    /\ embed_calls = 0
    /\ hits = <<>>
    /\ all_candidates = <<>>
    /\ candidates_for_reranking
           \in UNION {DirectCandidates(n) : n \in (MaxCand - 1)..MaxCand}
    /\ llm = "idle"
    /\ llm_calls = 0
    /\ response = <<>>
    /\ timed_out = FALSE
    /\ rerank_ok = FALSE
    /\ ranking_indices = <<>>
    /\ reranked = <<>>
    /\ reranked_results = <<>>
    /\ balance_called = FALSE
    /\ balance_out = <<>>
    /\ result = NoResult
    /\ raised = ""
    /\ ServerIdle
    /\ calls = NoCalls
    /\ build = NoBuild

GeminiRespondsAny == RespondWith(AllResponses)

NextRerank ==
    \/ PromptError
    \/ SubmitToGemini
    \/ GeminiRespondsAny
    \/ GeminiRaises
    \/ Timeout
    \/ GeminiFinishesLate
    \/ ShutdownReturns

SpecRerank == InitRerank /\ [][NextRerank]_vars

-----------------------------------------------------------------------------
(* The parser of _rerank_with_gemini on any short text: the call is in     *)
(* flight for MaxCand - 1 candidates, and any text over digits, commas,    *)
(* spaces, letters, brackets and a prefix word comes back.                 *)

AllTexts == SeqsUpTo({"1", "2", ",", " ", "x", "[", "ranking"}, MaxText)

ParseCandidates ==
    [i \in 1..(MaxCand - 1) |->
        [url |-> i, type |-> "K", similarity |-> MaxCand - i, rec |-> i,
         ranked |-> FALSE, rerank_score |-> 0, rerank_position |-> 0]]

InitParse ==
    /\ diskMetadata = <<>>
    /\ vectors = <<>>
    /\ disk = "ok"
    /\ index_loaded = TRUE
    /\ metadata = <<>>
    /\ load_ok = TRUE
    /\ query = <<"Java", "Developer">>
    /\ top_k = 1
    /\ balance_types = FALSE
    /\ use_reranking = TRUE
    /\ pc = "wait"
    /\ provider = <<>>
    /\ embedding = "none"
    /\ embed_calls = 0
    /\ hits = <<>>
    /\ all_candidates = <<>>
    /\ candidates_for_reranking = ParseCandidates
    /\ llm = "running"
    /\ llm_calls = 1
    /\ response = <<>>
    /\ timed_out = FALSE
    /\ rerank_ok = FALSE
    /\ ranking_indices = <<>>
    /\ reranked = <<>>
    /\ reranked_results = <<>>
    /\ balance_called = FALSE
    /\ balance_out = <<>>
    /\ result = NoResult
    /\ raised = ""
    /\ ServerIdle
    /\ calls = NoCalls
    /\ build = NoBuild

GeminiRespondsText == RespondWith(AllTexts)

NextParse == GeminiRespondsText

SpecParse == InitParse /\ [][NextParse]_vars

-----------------------------------------------------------------------------
(* generate_query_embedding called on a loaded recommender, with any       *)
(* provider.                                                               *)

InitEmbed ==
    /\ diskMetadata = <<[url |-> 1, type |-> "K"]>>
    /\ vectors = <<1>>
    /\ disk = "ok"
    /\ index_loaded = TRUE
    /\ metadata = <<[url |-> 1, type |-> "K"]>>
    /\ load_ok = TRUE
    /\ query \in Queries
    /\ top_k = 1
    /\ balance_types = FALSE
    /\ use_reranking = FALSE
    /\ pc = "ready"
    /\ provider = <<>>
    /\ embedding = "none"
    /\ embed_calls = 0
    /\ hits = <<>>
    /\ all_candidates = <<>>
    /\ candidates_for_reranking = <<>>
    /\ llm = "idle"
    /\ llm_calls = 0
    /\ response = <<>>
    /\ timed_out = FALSE
    /\ rerank_ok = FALSE
    /\ ranking_indices = <<>>
    /\ reranked = <<>>
    /\ reranked_results = <<>>
    /\ balance_called = FALSE
    /\ balance_out = <<>>
    /\ result = NoResult
    /\ raised = ""
    /\ ServerIdle
    /\ calls = NoCalls
    /\ build = NoBuild

EmbedAny == EmbedWith(Providers)

NextEmbed == EmbedAny

SpecEmbed == InitEmbed /\ [][NextEmbed]_vars

-----------------------------------------------------------------------------
(* The pipeline on the files as they are found on disk: the index and the  *)
(* metadata may hold different numbers of entries, and a file may be       *)
(* missing or unreadable.                                                  *)

DiskStates == {"ok", "missing", "corrupt_index", "corrupt_metadata"}

\* Metadata files and index files of up to MaxMeta entries each.
FoundMetadata == UNION {[1..n -> [url : Urls, type : {"K"}]] : n \in 1..MaxMeta}

FoundVectors == UNION {[1..n -> Scores] : n \in 1..MaxMeta}

InitFiles ==
    /\ diskMetadata \in FoundMetadata
    /\ vectors \in FoundVectors
    /\ disk \in DiskStates
    /\ query = <<"Java", "Developer">>
    /\ top_k \in 1..MaxTopK
    /\ balance_types \in BOOLEAN
    /\ use_reranking \in BOOLEAN
    /\ index_loaded = FALSE
    /\ metadata = <<>>
    /\ load_ok = FALSE
    /\ pc = "new"
    /\ provider = <<>>
    /\ embedding = "none"
    /\ embed_calls = 0
    /\ hits = <<>>
    /\ all_candidates = <<>>
    /\ candidates_for_reranking = <<>>
    /\ llm = "idle"
    /\ llm_calls = 0
    /\ response = <<>>
    /\ timed_out = FALSE
    /\ rerank_ok = FALSE
    /\ ranking_indices = <<>>
    /\ reranked = <<>>
    /\ reranked_results = <<>>
    /\ balance_called = FALSE
    /\ balance_out = <<>>
    /\ result = NoResult
    /\ raised = ""
    /\ ServerIdle
    /\ calls = NoCalls
    /\ build = NoBuild

\* load_index() raises before self.index is assigned: a file is missing
\* (lines 61-71) or faiss.read_index raises (line 74).
LoadIndexFailsEarly ==
    /\ pc = "new"
    /\ disk \in {"missing", "corrupt_index"}
    /\ pc' = "ready"
    /\ UNCHANGED <<files, loaded, args, collected, gemini, reranked_results,
                   outcome, server, calls, build>>

\* load_index() raises after self.index is assigned: pickle.load raises
\* (lines 77-78), self.metadata keeps the empty list of __init__.
LoadIndexFailsLate ==
    /\ pc = "new"
    /\ disk = "corrupt_metadata"
    /\ index_loaded' = TRUE
    /\ pc' = "ready"
    /\ UNCHANGED <<files, metadata, load_ok, args, collected, gemini,
                   reranked_results, outcome, server, calls, build>>

NextFiles ==
    \/ LoadIndexFailsEarly
    \/ LoadIndexFailsLate
    \/ Next

SpecFiles == InitFiles /\ [][NextFiles]_vars

-----------------------------------------------------------------------------
(* The web service (src/api.py).  Every endpoint is an `async def` whose   *)
(* body never awaits: the event loop runs a handler to its end before it   *)
(* starts the next one, so requests that arrive together are answered one  *)
(* after another, in any order.  One action answers one request.  The      *)
(* fields index_loaded, metadata and load_ok are those of the instance     *)
(* bound to the global `recommender` (there is never a second one).        *)
(* A query is known by two lengths: `core`, the length of query.strip(),   *)
(* and `pad`, the number of leading and trailing whitespace characters.    *)

\* Line 193: max_query_length.
MaxQueryLength == 5000

\* Line 211: the bounds of max(1, min(20, top_k)).
LowestTopK == 1

HighestTopK == 20

\* Line 88: the default of RecommendationRequest.top_k.
DefaultTopK == 10

QueryCores == {0, 1, MaxQueryLength, MaxQueryLength + 1}

Paddings == {0, 1}

\* top_k is Optional[int]: an integer, or null (`top_k_null`).
RequestedTopK == {LowestTopK - 2, LowestTopK - 1, LowestTopK, DefaultTopK,
                  HighestTopK, HighestTopK + 1}

\* A request: `malformed` says that the body is not a RecommendationRequest
\* (lines 85-88: top_k is neither an integer nor null), `seen` is the
\* number of requests the limiter had counted when this one reached it.
HealthRequests ==
    {[kind |-> "health", core |-> 0, pad |-> 0, top_k |-> DefaultTopK,
      top_k_null |-> FALSE, malformed |-> FALSE, seen |-> 0]}

RecommendRequests ==
    [kind : {"recommend"}, core : QueryCores, pad : Paddings,
     top_k : RequestedTopK, top_k_null : {FALSE}, malformed : {FALSE}, seen : {0}]
    \cup [kind : {"recommend"}, core : QueryCores, pad : Paddings,
          top_k : {DefaultTopK}, top_k_null : {TRUE}, malformed : {FALSE},
          seen : {0}]
    \cup [kind : {"recommend"}, core : QueryCores, pad : {0},
          top_k : {DefaultTopK}, top_k_null : {FALSE}, malformed : {TRUE},
          seen : {0}]

\* An answer: `got` is what get_recommender() did for the handler ("none"
\* when it was not called, "raised", "instance"), `invoked` says whether
\* recommender.recommend() was called and `passed_k` with which top_k.
Answer(req, got, invoked, passed_k, status) ==
    [kind |-> req.kind, core |-> req.core, pad |-> req.pad, top_k |-> req.top_k,
     top_k_null |-> req.top_k_null, malformed |-> req.malformed,
     seen |-> req.seen, got |-> got, invoked |-> invoked,
     passed_k |-> passed_k, status |-> status]

InitApi ==
    /\ diskMetadata = <<[url |-> 1, type |-> "K"]>>
    /\ vectors = <<1>>
    /\ disk \in DiskStates
    /\ api_key \in BOOLEAN
    /\ recommender = "None"
    /\ constructed = 0
    /\ loads = 0
    /\ handled = 0
    /\ last = NoRequest
    /\ request = NoRequest
    /\ rate_limit \in {1, DefaultRateLimit}
    /\ window = 0
    /\ query = <<>>
    /\ top_k = DefaultTopK
    /\ balance_types = TRUE
    /\ use_reranking = TRUE
    /\ index_loaded = FALSE
    /\ metadata = <<>>
    /\ load_ok = FALSE
    /\ pc = "serving"
    /\ provider = <<>>
    /\ embedding = "none"
    /\ embed_calls = 0
    /\ hits = <<>>
    /\ all_candidates = <<>>
    /\ candidates_for_reranking = <<>>
    /\ llm = "idle"
    /\ llm_calls = 0
    /\ response = <<>>
    /\ timed_out = FALSE
    /\ rerank_ok = FALSE
    /\ ranking_indices = <<>>
    /\ reranked = <<>>
    /\ reranked_results = <<>>
    /\ balance_called = FALSE
    /\ balance_out = <<>>
    /\ result = NoResult
    /\ raised = ""
    /\ calls = NoCalls
    /\ build = NoBuild

\* The handlers are `async def` functions that never await: the event loop
\* serves one request from its arrival to its answer, and `request` is that
\* request, NoRequest between two requests.  A handler reads the index
\* files and waits for the providers on its way; embedder.py, another
\* process, runs on meanwhile.

\* The request req, its handler being at `at`: "load_index" when
\* faiss.read_index has returned and the metadata file is to be read,
\* "recommend" when recommender.recommend(..., top_k = passed_k) is running.
Pending(req, at, passed_k) ==
    [kind |-> req.kind, core |-> req.core, pad |-> req.pad, top_k |-> req.top_k,
     top_k_null |-> req.top_k_null, malformed |-> req.malformed,
     seen |-> req.seen, at |-> at, passed_k |-> passed_k]

\* The handler answers: the event loop is free for the next request.
Answered(a) ==
    /\ last' = a
    /\ handled' = handled + 1
    /\ request' = NoRequest

\* get_recommender() (lines 70-81) up to the return of faiss.read_index
\* (recommender.py lines 61-74), `got` being what the caller receives:
\* "instance", "raised", or "reading" when the metadata file is still to be
\* read.  The global is bound at line 75, before load_index() runs at line
\* 76: an exception of load_index() leaves it bound.
get_recommender(got) ==
    IF recommender # "None"
    THEN /\ got = "instance"
         /\ UNCHANGED <<recommender, constructed, loaded>>
    ELSE IF ~api_key
    THEN /\ got = "raised"
         /\ UNCHANGED <<recommender, constructed, loaded>>
    ELSE /\ recommender' = "instance"
         /\ constructed' = constructed + 1
         /\ IF disk \in {"missing", "corrupt_index"}
            THEN /\ UNCHANGED loaded
                 /\ got = "raised"
            ELSE /\ index_loaded' = TRUE
                 /\ UNCHANGED <<metadata, load_ok>>
                 /\ got = "reading"

\* Variant of requested_top_k: the lower bound is missing.
requested_top_k_unbounded_below(k) == Min(HighestTopK, k)

\* Line 211.
requested_top_k(k) == Max(LowestTopK, Min(HighestTopK, k))

\* What the handler of req does with what get_recommender() did.  While
\* the metadata file is still to be read, the handler is inside
\* load_index().  Once get_recommender() has returned or raised,
\* health_check answers (lines 133-142); recommend answers 500 when
\* get_recommender() raised or line 211 raises TypeError on a null top_k,
\* and otherwise calls recommender.recommend() at line 212 and waits in it
\* for the embedding provider and the LLM.
AfterGetRecommender(req, got) ==
    IF got = "reading"
    THEN /\ request' = Pending(req, "load_index", 0)
         /\ UNCHANGED <<last, handled>>
    ELSE IF req.kind = "health"
    THEN Answered(Answer(req, got, FALSE, 0, IF got = "instance" THEN 200 ELSE 503))
    ELSE IF got = "raised" \/ req.top_k_null
    THEN Answered(Answer(req, got, FALSE, 0, 500))
    ELSE /\ request' = Pending(req, "recommend", requested_top_k(req.top_k))
         /\ UNCHANGED <<last, handled>>

\* GET /health (lines 130-142), up to the answer or to the reading of the
\* metadata file.
HandleHealth ==
    /\ request = NoRequest
    /\ handled < MaxRequests
    /\ \E req \in HealthRequests, got \in {"instance", "raised", "reading"} :
          /\ get_recommender(got)
          /\ AfterGetRecommender(req, got)
    /\ UNCHANGED <<files, args, pc, collected, gemini, reranked_results, outcome,
                   api_key, loads, rate_limit, window, calls, build>>

\* Variant of QueryRejected: the length is not tested.
QueryRejectedIfEmpty(req) == req.core + req.pad = 0 \/ req.core = 0

\* Lines 184 and 192-194: the query is empty, blank or too long.
QueryRejected(req) ==
    \/ req.core + req.pad = 0
    \/ req.core = 0
    \/ req.core > MaxQueryLength

\* POST /recommend (lines 167-217), up to the answer, to the reading of the
\* metadata file or to the call of recommender.recommend().  FastAPI
\* validates the body against RecommendationRequest (lines 85-88) and
\* answers 422 without calling the endpoint.  The endpoint is wrapped by
\* @limiter.limit (line 168): the limiter counts the request, and when
\* rate_limit requests were counted in the current minute it raises
\* RateLimitExceeded, answered 429 (lines 49-50), and the body of the
\* handler does not run.
HandleRecommend ==
    /\ request = NoRequest
    /\ handled < MaxRequests
    /\ \E req \in RecommendRequests :
          IF req.malformed
          THEN /\ Answered(Answer(req, "none", FALSE, 0, 422))
               /\ UNCHANGED <<window, recommender, constructed, loaded>>
          ELSE LET counted == [req EXCEPT !.seen = window] IN
               /\ window' = window + 1
               /\ IF window >= rate_limit
                  THEN /\ Answered(Answer(counted, "none", FALSE, 0, 429))
                       /\ UNCHANGED <<recommender, constructed, loaded>>
                  ELSE IF QueryRejected(counted)
                  THEN /\ Answered(Answer(counted, "none", FALSE, 0, 400))
                       /\ UNCHANGED <<recommender, constructed, loaded>>
                  ELSE \E got \in {"instance", "raised", "reading"} :
                          /\ get_recommender(got)
                          /\ AfterGetRecommender(counted, got)
    /\ UNCHANGED <<files, args, pc, collected, gemini, reranked_results, outcome,
                   api_key, loads, rate_limit, calls, build>>

\* The minute of the limiter's window is over: its count starts again.
WindowExpires ==
    /\ window > 0
    /\ window' = 0
    /\ UNCHANGED <<files, loaded, args, pc, collected, gemini, reranked_results,
                   outcome, api_key, recommender, constructed, loads, handled,
                   last, request, rate_limit, calls, build>>

\* pickle.load can read the metadata file as it is now.  While the index
\* file is being rewritten the metadata file is as it was before.
MetadataReadable ==
    \/ disk = "ok"
    \/ /\ disk = "corrupt_index"
       /\ (build.pc = "idle" \/ build.before \in {"ok", "corrupt_index"})

\* load_index() reads the metadata file (recommender.py lines 77-90) and
\* get_recommender() returns the instance, or pickle.load raises and
\* get_recommender() re-raises (api.py lines 76-81); the handler goes on.
LoadMetadata ==
    /\ request # NoRequest
    /\ request.at = "load_index"
    /\ IF MetadataReadable
       THEN /\ metadata' = CleanMetadata(diskMetadata)
            /\ load_ok' = TRUE
            /\ loads' = loads + 1
            /\ AfterGetRecommender(request, "instance")
       ELSE /\ UNCHANGED <<metadata, load_ok, loads>>
            /\ AfterGetRecommender(request, "raised")
    /\ UNCHANGED <<files, index_loaded, args, pc, collected, gemini,
                   reranked_results, outcome, api_key, recommender, constructed,
                   rate_limit,
                   window, calls, build>>

\* The statuses the handler can answer once recommender.recommend() was
\* called: it raises ValueError without an index (500); with one, the call
\* or the formatting of its result may raise (500) or not (200).
StatusesAfterCall == IF index_loaded THEN {200, 500} ELSE {500}

\* recommender.recommend() returns or raises and the handler answers
\* (lines 212-288).
RecommendReturns ==
    /\ request # NoRequest
    /\ request.at = "recommend"
    /\ \E status \in StatusesAfterCall :
          Answered(Answer(request, "instance", TRUE, request.passed_k, status))
    /\ UNCHANGED <<files, loaded, args, pc, collected, gemini, reranked_results,
                   outcome, api_key, recommender, constructed, loads, rate_limit,
                   window, calls, build>>

\* embedder.py is run while the server is up.  save_index (embedder.py lines
\* 209-226) writes the index file and then the metadata file; each write
\* first creates or empties the file.  `disk` tells what load_index() does
\* with the files as they are: "missing" when a file is absent,
\* "corrupt_index" when faiss.read_index raises, "corrupt_metadata" when the
\* index is read and pickle.load raises, "ok" otherwise.  Of a "missing"
\* disk the metadata file is absent; an absent index next to a metadata
\* file is served and rewritten as a "corrupt_index" disk is.

\* What load_index() finds once the index file is complete, the metadata
\* file being as it was when the disk was `before`.
DiskWithNewIndex(before) ==
    IF before \in {"ok", "corrupt_index"} THEN "ok" ELSE before

\* Line 222, faiss.write_index opens the index file: it exists and is empty.
EmbedderOpensIndex ==
    /\ build.pc = "idle"
    /\ build' = [pc |-> "index_open", before |-> disk]
    /\ disk' = IF disk = "missing" THEN "missing" ELSE "corrupt_index"
    /\ UNCHANGED <<diskMetadata, vectors, loaded, args, pc, collected, gemini,
                   reranked_results, outcome, server, calls>>

\* Line 222, faiss.write_index has written the index.
EmbedderWritesIndex ==
    /\ build.pc = "index_open"
    /\ build' = [build EXCEPT !.pc = "index_written"]
    /\ disk' = DiskWithNewIndex(build.before)
    /\ UNCHANGED <<diskMetadata, vectors, loaded, args, pc, collected, gemini,
                   reranked_results, outcome, server, calls>>

\* Line 225, open(metadata_file, 'wb'): the metadata file exists and is
\* empty, pickle.load of it raises EOFError.
EmbedderOpensMetadata ==
    /\ build.pc = "index_written"
    /\ build' = [build EXCEPT !.pc = "metadata_open"]
    /\ disk' = "corrupt_metadata"
    /\ UNCHANGED <<diskMetadata, vectors, loaded, args, pc, collected, gemini,
                   reranked_results, outcome, server, calls>>

\* Line 226, pickle.dump, and the file is closed.
EmbedderDumpsMetadata ==
    /\ build.pc = "metadata_open"
    /\ build' = [build EXCEPT !.pc = "saved"]
    /\ disk' = "ok"
    /\ UNCHANGED <<diskMetadata, vectors, loaded, args, pc, collected, gemini,
                   reranked_results, outcome, server, calls>>

NextApi ==
    \/ HandleHealth
    \/ HandleRecommend
    \/ LoadMetadata
    \/ RecommendReturns
    \/ WindowExpires
    \/ EmbedderOpensIndex
    \/ EmbedderWritesIndex
    \/ EmbedderOpensMetadata
    \/ EmbedderDumpsMetadata

SpecApi == InitApi /\ [][NextApi]_vars

-----------------------------------------------------------------------------
(* The no-rerank path on catalogs whose pool holds up to MaxTail records   *)
(* behind MinTechnical technical ones, so that the balancer has more        *)
(* behavioral candidates to choose from than it may add.                   *)

\* The category tags of the records behind the technical ones.
BalanceTypes == {"K", "P", "H"}

\* n records behind the technical ones, of any category, their scores
\* falling or rising with the offset.
BalanceTails(n) ==
    {[i \in 1..n |-> [url |-> 20 + i, type |-> t[i], score |-> s[i]]] :
        t \in [1..n -> BalanceTypes],
        s \in {[i \in 1..n |-> n - i], [i \in 1..n |-> i - 1]}}

BalanceCatalogs ==
    {[i \in 1..MinTechnical |-> [url |-> 10 + i, type |-> "K", score |-> 9]] \o t :
        t \in UNION {BalanceTails(n) : n \in 1..MaxTail}}

InitBalance ==
    /\ \E cat \in BalanceCatalogs :
          /\ diskMetadata = [i \in 1..Len(cat) |-> [url |-> cat[i].url, type |-> cat[i].type]]
          /\ vectors = [i \in 1..Len(cat) |-> cat[i].score]
    /\ disk = "ok"
    /\ query \in Queries
    /\ top_k \in {MinTechnical, MinTechnical + 1}
    /\ balance_types \in BOOLEAN
    /\ use_reranking = FALSE
    /\ index_loaded = FALSE
    /\ metadata = <<>>
    /\ load_ok = FALSE
    /\ pc = "new"
    /\ provider = <<>>
    /\ embedding = "none"
    /\ embed_calls = 0
    /\ hits = <<>>
    /\ all_candidates = <<>>
    /\ candidates_for_reranking = <<>>
    /\ llm = "idle"
    /\ llm_calls = 0
    /\ response = <<>>
    /\ timed_out = FALSE
    /\ rerank_ok = FALSE
    /\ ranking_indices = <<>>
    /\ reranked = <<>>
    /\ reranked_results = <<>>
    /\ balance_called = FALSE
    /\ balance_out = <<>>
    /\ result = NoResult
    /\ raised = ""
    /\ ServerIdle
    /\ calls = NoCalls
    /\ build = NoBuild

NextBalance ==
    \/ LoadIndex
    \/ EmbedQuery
    \/ SearchAndCollect
    \/ SortBySimilarity
    \/ BalanceAndReturn

SpecBalance == InitBalance /\ [][NextBalance]_vars

-----------------------------------------------------------------------------
(* recommend() invoked by several threads on one loaded recommender.  The  *)
(* invocations share self.index and self.metadata; everything else is a    *)
(* local of the invocation.  A thread may be preempted between any two     *)
(* steps; a step that touches no shared object commutes with the steps of  *)
(* the other threads, so the model switches threads around the one step    *)
(* that reads the shared objects (search and collection).                  *)

Threads == 1..MaxCalls

\* A catalog whose order by similarity depends on the embedding: with a
\* vector the second record comes first, with the zero vector the first.
SharedCatalog ==
    <<[url |-> 1, type |-> "K", score |-> 0], [url |-> 2, type |-> "P", score |-> 1]>>

\* The arguments of an invocation and what the embedding provider does for
\* it: top_k below or at the number of candidates, re-ranking on or off, the
\* query embedded or not (the zero vector).
CallInputs ==
    {[top_k |-> 1, use_reranking |-> TRUE, provider |-> <<"vector", "vector", "vector">>],
     [top_k |-> 2, use_reranking |-> TRUE, provider |-> <<"error", "error", "error">>],
     [top_k |-> 2, use_reranking |-> FALSE, provider |-> <<"vector", "vector", "vector">>],
     [top_k |-> 1, use_reranking |-> FALSE, provider |-> <<"error", "error", "error">>]}

\* The texts the LLM call of an invocation may answer.
CallResponses == {<<"1">>, <<"2", ",", "1">>}

\* The locals of an invocation that has not started.
IdleCall ==
    [pc |-> "ready", query |-> <<>>, top_k |-> 0, balance_types |-> FALSE,
     use_reranking |-> FALSE, provider |-> <<>>, embedding |-> "none", hits |-> <<>>,
     all_candidates |-> <<>>, candidates_for_reranking |-> <<>>,
     llm |-> "idle", timed_out |-> FALSE, response |-> <<>>,
     reranked_results |-> <<>>, result |-> <<>>, raised |-> ""]

InitConcurrent ==
    /\ diskMetadata = [i \in 1..Len(SharedCatalog) |->
                          [url |-> SharedCatalog[i].url, type |-> SharedCatalog[i].type]]
    /\ vectors = [i \in 1..Len(SharedCatalog) |-> SharedCatalog[i].score]
    /\ disk = "ok"
    /\ index_loaded = TRUE
    /\ metadata = CleanMetadata(diskMetadata)
    /\ load_ok = TRUE
    /\ query = <<>>
    /\ top_k = 1
    /\ balance_types = FALSE
    /\ use_reranking = FALSE
    /\ pc = "concurrent"
    /\ provider = <<>>
    /\ embedding = "none"
    /\ embed_calls = 0
    /\ hits = <<>>
    /\ all_candidates = <<>>
    /\ candidates_for_reranking = <<>>
    /\ llm = "idle"
    /\ llm_calls = 0
    /\ response = <<>>
    /\ timed_out = FALSE
    /\ rerank_ok = FALSE
    /\ ranking_indices = <<>>
    /\ reranked = <<>>
    /\ reranked_results = <<>>
    /\ balance_called = FALSE
    /\ balance_out = <<>>
    /\ result = NoResult
    /\ raised = ""
    /\ ServerIdle
    /\ calls = [t \in Threads |-> IdleCall]
    /\ build = NoBuild

\* Variant of MetadataAfterCollect: the similarity is written to the record
\* of self.metadata itself (.copy() is missing at line 185).
MetadataWrittenInPlace(md, hs) ==
    [i \in 1..Len(md) |->
        IF \E n \in 1..Len(hs) : PyIndex(md, hs[n].idx) = i
        THEN [url |-> md[i].url, type |-> "similarity"]
        ELSE md[i]]

\* Lines 185-186: the similarity is written to a copy of the record;
\* self.metadata is what it was.
MetadataAfterCollect(md, hs) == md

\* Invocation t enters recommend() with its arguments (a role query,
\* balancing on), finds the index loaded (line 162) and calls
\* generate_query_embedding (line 166), which sends the query to the
\* embedding provider (line 111): the invocation waits for the answer.
\* `provider` is what the provider will do with the calls of this invocation.
CallEnter(t) ==
    /\ calls[t].pc = "ready"
    /\ index_loaded
    /\ \E inp \in CallInputs :
          calls' = [calls EXCEPT ![t] =
                       [@ EXCEPT !.pc = "embed", !.query = <<"Java", "Developer">>,
                                 !.top_k = inp.top_k, !.balance_types = TRUE,
                                 !.use_reranking = inp.use_reranking,
                                 !.provider = inp.provider]]
    /\ UNCHANGED <<files, loaded, args, pc, collected, gemini, reranked_results,
                   outcome, server, build>>

\* The embedding provider has answered the calls of invocation t (lines
\* 111, 121, 133): generate_query_embedding returns (lines 166-170).
CallEmbed(t) ==
    /\ calls[t].pc = "embed"
    /\ calls' = [calls EXCEPT ![t] =
                    [@ EXCEPT !.pc = "search",
                              !.embedding = generate_query_embedding(calls[t].provider)]]
    /\ UNCHANGED <<files, loaded, args, pc, collected, gemini, reranked_results,
                   outcome, server, build>>

\* Invocation t searches the shared index and collects its candidates from
\* the shared metadata (lines 174-197).
CallSearchAndCollect(t) ==
    /\ calls[t].pc = "search"
    /\ LET c == calls[t]
           hs == Search(vectors, c.embedding,
                        search_k_of(c.top_k, c.use_reranking, c.balance_types))
           got == Collect(hs, metadata)
       IN  /\ metadata' = MetadataAfterCollect(metadata, hs)
           /\ calls' = [calls EXCEPT ![t] =
                 IF got.error # ""
                 THEN [c EXCEPT !.pc = "done", !.hits = hs, !.raised = got.error]
                 ELSE [c EXCEPT !.pc = IF c.use_reranking
                                          /\ Len(CandidatesForReranking(got.list,
                                                                        c.top_k)) > 0
                                       THEN "rerank" ELSE "sort",
                                !.hits = hs,
                                !.all_candidates = got.list,
                                !.candidates_for_reranking =
                                    CandidatesForReranking(got.list, c.top_k)]]
    /\ UNCHANGED <<files, index_loaded, load_ok, args, pc, collected, gemini,
                   reranked_results, outcome, server, build>>

\* Invocation t does not re-rank: it sorts its pool by similarity (lines
\* 205-208).
CallSortBySimilarity(t) ==
    /\ calls[t].pc = "sort"
    /\ calls' = [calls EXCEPT ![t] =
          [@ EXCEPT !.pc = "balance",
                    !.reranked_results =
                        Slice(SortBySimilarityDesc(calls[t].candidates_for_reranking),
                              calls[t].top_k)]]
    /\ UNCHANGED <<files, loaded, args, pc, collected, gemini, reranked_results,
                   outcome, server, build>>

\* Invocation t submits its LLM call to a worker of its own executor (lines
\* 465-466) and waits in future.result (line 467).
CallSubmitToGemini(t) ==
    /\ calls[t].pc = "rerank"
    /\ calls' = [calls EXCEPT ![t] = [@ EXCEPT !.pc = "wait", !.llm = "running"]]
    /\ UNCHANGED <<files, loaded, args, pc, collected, gemini, reranked_results,
                   outcome, server, build>>

\* The call of invocation t returns in time; lines 468-547 parse the
\* response.
CallGeminiResponds(t) ==
    /\ calls[t].pc = "wait"
    /\ calls[t].llm = "running"
    /\ \E r \in CallResponses :
          calls' = [calls EXCEPT ![t] =
              [@ EXCEPT !.pc = "balance", !.llm = "returned", !.response = r,
                        !.reranked_results =
                            RerankFromResponse(calls[t].candidates_for_reranking, calls[t].top_k, r)]]
    /\ UNCHANGED <<files, loaded, args, pc, collected, gemini, reranked_results,
                   outcome, server, build>>

\* The call of invocation t raises in time (lines 473-477).
CallGeminiRaises(t) ==
    /\ calls[t].pc = "wait"
    /\ calls[t].llm = "running"
    /\ calls' = [calls EXCEPT ![t] =
          [@ EXCEPT !.pc = "balance", !.llm = "raised",
                    !.reranked_results =
                        SimilarityFallback(calls[t].candidates_for_reranking, calls[t].top_k)]]
    /\ UNCHANGED <<files, loaded, args, pc, collected, gemini, reranked_results,
                   outcome, server, build>>

\* future.result of invocation t times out; leaving the `with` block waits
\* for the worker (shutdown(wait=True)).
CallTimeout(t) ==
    /\ calls[t].pc = "wait"
    /\ calls[t].llm = "running"
    /\ calls' = [calls EXCEPT ![t] = [@ EXCEPT !.pc = "shutdown", !.timed_out = TRUE]]
    /\ UNCHANGED <<files, loaded, args, pc, collected, gemini, reranked_results,
                   outcome, server, build>>

\* The abandoned call of invocation t ends.
CallGeminiFinishesLate(t) ==
    /\ calls[t].pc = "shutdown"
    /\ calls[t].llm = "running"
    /\ calls' = [calls EXCEPT ![t] = [@ EXCEPT !.llm = "finished"]]
    /\ UNCHANGED <<files, loaded, args, pc, collected, gemini, reranked_results,
                   outcome, server, build>>

\* The shutdown of invocation t's executor returns; lines 469-472.
CallShutdownReturns(t) ==
    /\ calls[t].pc = "shutdown"
    /\ calls[t].llm # "running"
    /\ calls' = [calls EXCEPT ![t] =
          [@ EXCEPT !.pc = "balance",
                    !.reranked_results =
                        SimilarityFallback(calls[t].candidates_for_reranking, calls[t].top_k)]]
    /\ UNCHANGED <<files, loaded, args, pc, collected, gemini, reranked_results,
                   outcome, server, build>>

\* Invocation t balances if asked and possible, cuts and returns (lines
\* 210-223).
CallBalanceAndReturn(t) ==
    /\ calls[t].pc = "balance"
    /\ LET c == calls[t] IN
       IF c.balance_types /\ Len(c.all_candidates) > Len(c.reranked_results)
       THEN LET bal == balance_types_light(c.reranked_results, c.all_candidates,
                                           c.query, c.top_k)
            IN  calls' = [calls EXCEPT ![t] =
                    IF bal.error # ""
                    THEN [c EXCEPT !.pc = "done", !.raised = bal.error]
                    ELSE [c EXCEPT !.pc = "done",
                                   !.result = FinalResult(bal.list, c.top_k)]]
       ELSE calls' = [calls EXCEPT ![t] =
                [c EXCEPT !.pc = "done", !.result = Slice(c.reranked_results, c.top_k)]]
    /\ UNCHANGED <<files, loaded, args, pc, collected, gemini, reranked_results,
                   outcome, server, build>>

NextConcurrent ==
    \E t \in Threads :
        \/ CallEnter(t)
        \/ CallEmbed(t)
        \/ CallSearchAndCollect(t)
        \/ CallSortBySimilarity(t)
        \/ CallSubmitToGemini(t)
        \/ CallGeminiResponds(t)
        \/ CallGeminiRaises(t)
        \/ CallTimeout(t)
        \/ CallGeminiFinishesLate(t)
        \/ CallShutdownReturns(t)
        \/ CallBalanceAndReturn(t)

SpecConcurrent == InitConcurrent /\ [][NextConcurrent]_vars

-----------------------------------------------------------------------------
(* The index build (src/embedder.py, main): generate_embeddings,            *)
(* build_faiss_index, save_index.  A catalog row carries `score`, the      *)
(* similarity its embedding has to the query of a later search (1 or       *)
(* more); the zero vector has similarity 0 to any query.  An embedding is  *)
(* known by the row it was computed from and by its kind.                  *)

\* What the three ways of calling the provider do for one row: they work,
\* they all fail, or the first two fail and the REST call works.
BuildProviders ==
    {<<"vector", "vector", "vector">>,
     <<"error", "error", "error">>,
     <<"schema_error", "error", "vector">>}

\* The scores of the rows.
RowScores == {1, 2}

\* Catalogs of 1 to MaxMeta rows with urls of their own.
BuildCatalogs ==
    UNION {{[i \in 1..n |-> [url |-> i, type |-> "K", score |-> s[i]]] :
               s \in [1..n -> RowScores]} : n \in 1..MaxMeta}

InitBuild ==
    /\ diskMetadata = <<>>
    /\ vectors = <<>>
    /\ disk = "missing"
    /\ index_loaded = FALSE
    /\ metadata = <<>>
    /\ load_ok = FALSE
    /\ query = <<>>
    /\ top_k = 1
    /\ balance_types = FALSE
    /\ use_reranking = FALSE
    /\ pc = "building"
    /\ provider = <<>>
    /\ embedding = "none"
    /\ embed_calls = 0
    /\ hits = <<>>
    /\ all_candidates = <<>>
    /\ candidates_for_reranking = <<>>
    /\ llm = "idle"
    /\ llm_calls = 0
    /\ response = <<>>
    /\ timed_out = FALSE
    /\ rerank_ok = FALSE
    /\ ranking_indices = <<>>
    /\ reranked = <<>>
    /\ reranked_results = <<>>
    /\ balance_called = FALSE
    /\ balance_out = <<>>
    /\ result = NoResult
    /\ raised = ""
    /\ ServerIdle
    /\ calls = NoCalls
    /\ \E df \in BuildCatalogs :
          \E ps \in [1..Len(df) -> BuildProviders] :
              build = [pc |-> "loaded", df |-> df, providers |-> ps,
                       all_embeddings |-> <<>>, index |-> <<>>, metadata |-> <<>>]

\* embedder.py lines 125-166, for one text: the embedding a call delivered,
\* or the zero vector when every way of calling failed.
text_embedding(p) ==
    IF p[1] \in {"vector", "odd"} THEN AsArray(p[1])
    ELSE IF p[1] = "error" THEN "zero"
    ELSE IF p[2] \in {"vector", "odd"} THEN AsArray(p[2])
    ELSE IF p[3] \in {"vector", "odd"} THEN AsArray(p[3])
    ELSE "zero"

RECURSIVE EmbeddingsDroppingFailed(_, _, _)
EmbeddingsDroppingFailed(df, ps, i) ==
    IF i > Len(df) THEN <<>>
    ELSE (IF text_embedding(ps[i]) = "zero" THEN <<>>
          ELSE <<[row |-> i, kind |-> text_embedding(ps[i])]>>)
         \o EmbeddingsDroppingFailed(df, ps, i + 1)

\* Variant of all_embeddings_of: a row whose embedding failed is left out.
all_embeddings_dropping_failed(df, ps) == EmbeddingsDroppingFailed(df, ps, 1)

\* generate_embeddings (lines 118-170): one embedding per row, in row order.
all_embeddings_of(df, ps) ==
    [i \in 1..Len(df) |-> [row |-> i, kind |-> text_embedding(ps[i])]]

\* The similarity a stored vector has to the query of a later search.
StoredScore(df, e) == IF e.kind = "zero" THEN 0 ELSE df[e.row].score

\* main, line 246: generate_embeddings(df).
GenerateEmbeddings ==
    /\ build.pc = "loaded"
    /\ build' = [build EXCEPT !.pc = "embedded",
                              !.all_embeddings = all_embeddings_of(build.df, build.providers)]
    /\ UNCHANGED <<files, loaded, args, pc, collected, gemini, reranked_results,
                   outcome, server, calls>>

\* main, lines 249-252: build_faiss_index adds the embeddings in their order
\* (index.add, line 201); the metadata is df.to_dict('records').
BuildFaissIndex ==
    /\ build.pc = "embedded"
    /\ build' = [build EXCEPT
                    !.pc = "built",
                    !.index = build.all_embeddings,
                    !.metadata = [i \in 1..Len(build.df) |->
                                     [url |-> build.df[i].url, type |-> build.df[i].type]]]
    /\ UNCHANGED <<files, loaded, args, pc, collected, gemini, reranked_results,
                   outcome, server, calls>>

\* save_index, line 222: faiss.write_index.
WriteIndexFile ==
    /\ build.pc = "built"
    /\ vectors' = [i \in 1..Len(build.index) |-> StoredScore(build.df, build.index[i])]
    /\ build' = [build EXCEPT !.pc = "index_written"]
    /\ UNCHANGED <<diskMetadata, disk, loaded, args, pc, collected, gemini,
                   reranked_results, outcome, server, calls>>

\* save_index, lines 225-226: pickle.dump of the metadata.
WriteMetadataFile ==
    /\ build.pc = "index_written"
    /\ diskMetadata' = build.metadata
    /\ disk' = "ok"
    /\ build' = [build EXCEPT !.pc = "saved"]
    /\ UNCHANGED <<vectors, loaded, args, pc, collected, gemini, reranked_results,
                   outcome, server, calls>>

NextBuild ==
    \/ GenerateEmbeddings
    \/ BuildFaissIndex
    \/ WriteIndexFile
    \/ WriteMetadataFile

SpecBuild == InitBuild /\ [][NextBuild]_vars

-----------------------------------------------------------------------------
(* recommend() on the catalogs embedder.py writes, some of whose records   *)
(* have no url.                                                            *)

\* The metadata file is df.to_dict('records') of the catalog CSV
\* (embedder.py lines 57, 252, 226): every record has the same entries.
\* The url column of the CSV is named 'URL' (data_loader.py lines 91-93) or
\* 'url' (data_crawler.py).
UrlColumns == {"URL", "url"}

\* What load_index leaves of an empty cell of the url column: pd.read_csv
\* reads it as NaN, load_index turns NaN into None (lines 83-88).
EmptyUrl(column) == IF column = "URL" THEN MissingUrl ELSE NoneUrl

\* Catalogs of one CSV: every record has a url or an empty cell in the one
\* url column.
UrlCatalogs ==
    UNION {[1..n -> [url : {EmptyUrl(column), 1}, type : {"K"}, score : Scores]] :
              n \in 1..MaxMeta, column \in UrlColumns}

InitUrls ==
    /\ \E cat \in UrlCatalogs :
          /\ diskMetadata = [i \in 1..Len(cat) |-> [url |-> cat[i].url, type |-> cat[i].type]]
          /\ vectors = [i \in 1..Len(cat) |-> cat[i].score]
    /\ disk = "ok"
    /\ query = <<"Java", "Developer">>
    /\ top_k \in 1..MaxTopK
    /\ balance_types \in BOOLEAN
    /\ use_reranking \in BOOLEAN
    /\ index_loaded = FALSE
    /\ metadata = <<>>
    /\ load_ok = FALSE
    /\ pc = "new"
    /\ provider = <<>>
    /\ embedding = "none"
    /\ embed_calls = 0
    /\ hits = <<>>
    /\ all_candidates = <<>>
    /\ candidates_for_reranking = <<>>
    /\ llm = "idle"
    /\ llm_calls = 0
    /\ response = <<>>
    /\ timed_out = FALSE
    /\ rerank_ok = FALSE
    /\ ranking_indices = <<>>
    /\ reranked = <<>>
    /\ reranked_results = <<>>
    /\ balance_called = FALSE
    /\ balance_out = <<>>
    /\ result = NoResult
    /\ raised = ""
    /\ ServerIdle
    /\ calls = NoCalls
    /\ build = NoBuild

NextUrls == CallerNext \/ GeminiNext

SpecUrls == InitUrls /\ [][NextUrls]_vars

-----------------------------------------------------------------------------
(* Vocabulary of the properties.                                           *)

\* recommend() returned a list.
Returned == pc = "done" /\ raised = ""

\* The position of x in s (x occurs in s).
PositionIn(s, x) == CHOOSE p \in 1..Len(s) : s[p] = x

NoRepeats(s) == \A i, j \in 1..Len(s) : i # j => s[i] # s[j]

\* out is `inp` sorted by similarity, highest first, elements of equal
\* similarity in their order of inp, cut to k; the elements are those of inp,
\* untouched.  (inp holds no element twice.)
IsSimilarityOrderOf(out, inp, k) ==
    /\ Len(out) = Min(k, Len(inp))
    /\ NoRepeats(out)
    /\ \A i \in 1..Len(out) : out[i] \in Range(inp)
    /\ IsSortedDesc(out)
    /\ \A i, j \in 1..Len(out) :
          (i < j /\ out[i].similarity = out[j].similarity)
              => PositionIn(inp, out[i]) < PositionIn(inp, out[j])
    /\ \A x \in Range(inp) \ Range(out) : \A i \in 1..Len(out) :
          \/ out[i].similarity > x.similarity
          \/ (out[i].similarity = x.similarity /\ PositionIn(inp, out[i]) < PositionIn(inp, x))

\* No element of s carries rerank fields.
NoRerankFields(s) == \A i \in 1..Len(s) : ~s[i].ranked

\* The text "p[1],p[2],...,p[n]".
RECURSIVE CommaJoined(_)
CommaJoined(p) ==
    IF p = <<>> THEN <<>>
    ELSE IF Len(p) = 1 THEN Numeral(p[1])
    ELSE Numeral(p[1]) \o <<",">> \o CommaJoined(Tail(p))

PermutationsOf(n) ==
    {p \in [1..n -> 1..n] : \A i, j \in 1..n : i # j => p[i] # p[j]}

\* c is candidate d, possibly with rerank fields added.
SameAssessment(c, d) ==
    /\ c.rec = d.rec
    /\ c.url = d.url
    /\ c.type = d.type
    /\ c.similarity = d.similarity

\* One invocation waits for the embedding provider, its arguments bound and
\* no embedding yet, while another has run from entry to return.
C26_WitnessEmbedding ==
    \E s, t \in DOMAIN calls :
        /\ calls[s].pc = "embed"
        /\ calls[s].embedding = "none"
        /\ calls[s].top_k >= 1
        /\ calls[t].pc = "done"
        /\ calls[t].result # <<>>

-----------------------------------------------------------------------------
(* Properties.                                                             *)

\* C1: the list recommend() returns has at most top_k items and no two of
\* them have the same url, whatever the flags and the LLM outcome.
C1_BoundedNoDuplicates ==
    Returned => (Len(result) <= top_k /\ ~HasDuplicateUrl(result))

\* A call that returned top_k items from a catalog with a repeated url,
\* after a successful re-ranking.
C1_Witness ==
    /\ Returned
    /\ HasDuplicateUrl(metadata)
    /\ rerank_ok
    /\ Len(result) = top_k

\* C2 (as claimed): once the timeout has fired, _rerank_with_gemini goes on
\* without the LLM call: the thread running recommend() always has a next
\* step, whether or not the call ever ends.
C2_TimeoutAbandonsCall ==
    (timed_out /\ pc # "done") => ENABLED CallerNext

\* C3: when the LLM call fails (it raises, it times out, or an exception
\* occurs before it), _rerank_with_gemini returns the candidates sorted by
\* similarity descending, cut to top_k, with no rerank field added.
C3_FallbackIsSimilarityOrder ==
    (pc = "balance" /\ llm # "returned")
        => /\ IsSimilarityOrderOf(reranked_results, candidates_for_reranking, top_k)
           /\ NoRerankFields(reranked_results)

\* The call raised on a candidate list that is not in similarity order and
\* is longer than top_k.
C3_Witness ==
    /\ pc = "balance"
    /\ llm = "raised"
    /\ ~IsSortedDesc(candidates_for_reranking)
    /\ top_k < Len(candidates_for_reranking)
    /\ Len(reranked_results) = top_k

\* C4: a response that is a full permutation p of 1..N, with top_k >= N,
\* yields candidates p[1], ..., p[N] in that order, the i-th with
\* rerank_position i.  (Written with commas, a permutation of 1..N with
\* N < 10 has 2N - 1 characters.)
C4_PermutationOrder ==
    (/\ pc = "balance"
     /\ llm = "returned"
     /\ top_k >= Len(candidates_for_reranking)
     /\ Len(response) = 2 * Len(candidates_for_reranking) - 1)
    => \A p \in PermutationsOf(Len(candidates_for_reranking)) :
          response = CommaJoined(p)
          => /\ Len(reranked_results) = Len(candidates_for_reranking)
             /\ \A i \in 1..Len(reranked_results) :
                   /\ SameAssessment(reranked_results[i], candidates_for_reranking[p[i]])
                   /\ reranked_results[i].rerank_position = i

\* The response 3,1,2 for three candidates.
C4_Witness ==
    /\ pc = "balance"
    /\ llm = "returned"
    /\ response = <<"3", ",", "1", ",", "2">>
    /\ Len(candidates_for_reranking) = 3
    /\ top_k = 3
    /\ reranked_results[1].rec = 3

\* C5 (as claimed): after a timeout the output of recommend() is the top_k
\* collected candidates in similarity order, for any balance_types and query.
C5_TimeoutOutputIsTopK ==
    (Returned /\ timed_out) => result = Take(all_candidates, top_k)

\* Line 211: the type balancer is called on the fallback list.
C5_BalancerInvoked ==
    balance_types /\ Len(all_candidates) > Len(reranked_results)

\* The type balancer replaces the tail of the list it is given.
C5_BalancerReplaces ==
    /\ C5_BalancerInvoked
    /\ BalanceReplaces(reranked_results, all_candidates, query)

\* C5 (amended): after a timeout recommend() returns the top_k collected
\* candidates in similarity order whenever the type balancer is not called,
\* and the list it returns is that one unless the type balancer replaces the
\* tail.
C5_TimeoutOutputIsTopKUnlessBalanced ==
    (pc = "done" /\ timed_out)
        => /\ ~C5_BalancerInvoked
                => (raised = "" /\ result = Take(all_candidates, top_k))
           /\ (raised = "" /\ ~C5_BalancerReplaces)
                => result = Take(all_candidates, top_k)

\* A timeout on a role query with balancing on, more candidates than top_k
\* and enough results for the balancer to be tried.
C5_Witness ==
    /\ Returned
    /\ timed_out
    /\ balance_called
    /\ is_role_query(query)
    /\ Len(result) >= MinTechnical
    /\ ~C5_BalancerReplaces

\* C6: a response with fewer valid distinct indices than min(top_k, N) is
\* treated as unparsable: the candidates come back in similarity order, cut
\* to top_k, none with a rerank score.
C6_TooFewIndicesFallsBack ==
    (/\ pc = "balance"
     /\ llm = "returned"
     /\ Len(RankingIndices(response, Len(candidates_for_reranking)))
            < Min(top_k, Len(candidates_for_reranking)))
    => /\ IsSimilarityOrderOf(reranked_results, candidates_for_reranking, top_k)
       /\ NoRerankFields(reranked_results)

\* A response with one valid index where two are needed, on candidates that
\* are not in similarity order.
C6_Witness ==
    /\ pc = "balance"
    /\ llm = "returned"
    /\ Len(RankingIndices(response, Len(candidates_for_reranking))) = 1
    /\ top_k >= 2
    /\ Len(candidates_for_reranking) >= 2
    /\ ~IsSortedDesc(candidates_for_reranking)

\* C7: when a candidate of the ranked list carries a rerank score,
\* _balance_types_light returns the list it was given.
C7_BalanceKeepsRerankedList ==
    (/\ balance_called
     /\ raised = ""
     /\ \E i \in 1..Len(reranked_results) : reranked_results[i].ranked)
    => balance_out = reranked_results

\* The balancer was called on a re-ranked list that it would have changed
\* had the list carried no rerank score.
C7_Witness ==
    /\ balance_called
    /\ raised = ""
    /\ rerank_ok
    /\ is_role_query(query)
    /\ Len(reranked_results) >= MinTechnical
    /\ "P" \notin types_in_results(reranked_results)
    /\ p_candidates(all_candidates, reranked_results) # <<>>

\* C8: after a successful re-ranking recommend() returns the re-ranker's
\* list as it is.
C8_RerankOrderIsFinal ==
    (Returned /\ rerank_ok) => result = reranked_results

\* A re-ranked list that is not in similarity order went through the
\* balancing branch.
C8_Witness ==
    /\ Returned
    /\ rerank_ok
    /\ balance_called
    /\ ~IsSortedDesc(result)

\* The hits that name a record, as positions of hits.
ResolvedHits ==
    {i \in 1..Len(hits) : hits[i].idx < Len(metadata) /\ PyIndex(metadata, hits[i].idx) # 0}

UrlOfHit(i) == metadata[PyIndex(metadata, hits[i].idx)].url

\* The collection loop of recommend() has just ended.
Collected == pc \in {"rerank", "sort"}

\* C9: when the collection step ends, the collected candidates hold every
\* url of the hits once, each from the first hit that carries it, in
\* similarity order.
C9_OneCandidatePerUrl ==
    Collected
    => LET resolved == ResolvedHits IN
       /\ ~HasDuplicateUrl(all_candidates)
       /\ IsSortedDesc(all_candidates)
       /\ \A i \in resolved : \E n \in 1..Len(all_candidates) :
             all_candidates[n].url = UrlOfHit(i)
       /\ \A n \in 1..Len(all_candidates) :
             \E i \in resolved :
                 /\ UrlOfHit(i) = all_candidates[n].url
                 /\ \A j \in resolved : (j < i) => UrlOfHit(j) # UrlOfHit(i)
                 /\ all_candidates[n].rec = PyIndex(metadata, hits[i].idx)
                 /\ all_candidates[n].similarity = hits[i].similarity

\* Two hits of different similarity carry the same url; one candidate was
\* collected for it.
C9_Witness ==
    /\ Collected
    /\ \E i, j \in ResolvedHits :
          /\ i < j
          /\ UrlOfHit(i) = UrlOfHit(j)
          /\ hits[i].similarity > hits[j].similarity
          /\ hits[j].idx >= 0
    /\ Len(all_candidates) = 1

\* C10 (as claimed): on a loaded index recommend() lets no exception escape.
C10_NeverRaises ==
    index_loaded => raised = ""

\* C11 (as claimed): after a load that succeeded, an offset the index returns outside
\* [0, len(metadata)), too large or negative, contributes no candidate and
\* raises no error: every collected candidate is the metadata record at an
\* offset of that range that the index returned.
C11_OutOfRangeOffsetsSkipped ==
    load_ok =>
        /\ raised # "IndexError"
        /\ \A n \in 1..Len(all_candidates) :
              \E i \in 1..Len(hits) :
                  /\ hits[i].idx >= 0
                  /\ hits[i].idx < Len(metadata)
                  /\ all_candidates[n].rec = hits[i].idx + 1

\* C12 (as claimed): requests that trigger the lazy initialization together
\* load the index exactly once: at most one AssessmentRecommender is
\* constructed and loaded, and every caller that get_recommender() hands an
\* instance receives the one fully loaded instance.
C12_InitializedOnce ==
    /\ constructed <= 1
    /\ loads <= 1
    /\ (last.kind # "none" /\ last.got = "instance") => (loads = 1 /\ load_ok)

\* C13 (as claimed): after any sequence of requests, get_recommender()
\* raises or returns a recommender whose index is loaded, and GET /health
\* answers 200 only when the index is loaded and 503 otherwise.
C13_ReturnedRecommenderIsLoaded ==
    /\ (last.kind # "none" /\ last.got = "instance") => index_loaded
    /\ last.kind = "health" =>
          /\ last.status \in {200, 503}
          /\ last.status = 200 => index_loaded

\* C14 (as claimed): recommend() called before load_index() has succeeded
\* raises ValueError and never returns a list, and it raises before any
\* embedding or LLM provider call is made.
C14_NotLoadedIsValueError ==
    ~load_ok =>
        /\ embedding = "none"
        /\ llm = "idle"
        /\ pc = "done" => raised = "ValueError"

\* C15 (as claimed): generate_query_embedding returns either a
\* one-dimensional vector a provider call delivered or the zero vector of
\* dimension D, and the zero vector whenever no call delivers a vector.
C15_EmbeddingIsVectorOrZero ==
    embedding # "none" =>
        /\ embedding \in {"vec", "zero"}
        /\ (\A i \in 1..Len(provider) : provider[i] # "vector") => embedding = "zero"

\* The last request was a POST /recommend.
Posted == last.kind = "recommend"

\* The last POST /recommend was not served: get_recommender() and
\* recommender.recommend() were not called.
Unserved ==
    /\ last.got = "none"
    /\ ~last.invoked

\* C16 (as claimed): a query that is empty, blank or longer than 5000
\* characters is answered 400 before the recommender is initialized or
\* invoked.
C16_InvalidQueryRejected ==
    (Posted /\ (last.core = 0 \/ last.core + last.pad > MaxQueryLength))
        => (last.status = 400 /\ Unserved)

\* C16 (amended): a query that is empty, blank or longer than 5000
\* characters once its leading and trailing whitespace is stripped is
\* never served, whatever the state of the index files, and never answered
\* 500: the answer is 422 when the body is malformed, 429 when the request
\* is beyond the rate limit, and 400 otherwise.
C16_InvalidStrippedQueryRejected ==
    (Posted /\ (last.core = 0 \/ last.core > MaxQueryLength))
        => /\ Unserved
           /\ last.status = (IF last.malformed THEN 422
                             ELSE IF last.seen >= rate_limit THEN 429
                             ELSE 400)
           /\ (handled = 1 /\ request = NoRequest)
                 => (recommender = "None" /\ constructed = 0)

\* A query of 5001 characters was rejected with 400 while the index file is
\* missing and no recommender exists.
C16_Witness ==
    /\ Posted
    /\ last.core > MaxQueryLength
    /\ ~last.malformed
    /\ last.seen < rate_limit
    /\ last.status = 400
    /\ disk = "missing"
    /\ recommender = "None"

\* An empty query beyond the rate limit was answered 429.
C16_WitnessRateLimited ==
    /\ Posted
    /\ last.core = 0
    /\ ~last.malformed
    /\ last.seen >= rate_limit
    /\ last.status = 429
    /\ Unserved

\* An empty query in a malformed body was answered 422.
C16_WitnessMalformed ==
    /\ Posted
    /\ last.core = 0
    /\ last.malformed
    /\ last.status = 422
    /\ Unserved

\* C17: whenever POST /recommend calls recommender.recommend(), the top_k it
\* passes lies in [1, 20]: a requested top_k below 1 is passed as 1, one
\* above 20 as 20.
C17_TopKClamped ==
    /\ (Posted /\ last.invoked)
          => /\ last.passed_k >= 1
             /\ last.passed_k <= 20
             /\ last.top_k < 1 => last.passed_k = 1
             /\ last.top_k > 20 => last.passed_k = 20
    /\ (request # NoRequest /\ request.at = "recommend")
          => /\ request.passed_k >= 1
             /\ request.passed_k <= 20
             /\ request.top_k < 1 => request.passed_k = 1
             /\ request.top_k > 20 => request.passed_k = 20

\* The core was called with 20 for a request that asked for more.
C17_Witness ==
    /\ Posted
    /\ last.invoked
    /\ last.top_k > 20
    /\ last.passed_k = 20

\* A candidate of a category the balancer counts as behavioral (line 261).
Behavioral(c) == Upper(c.type) \in {"P", "H"}

\* A candidate of the technical category.
Technical(c) == Upper(c.type) = "K"

\* The scenario of the technical-role injection: no re-ranking, balancing
\* on, a role query, top results all technical and at least MinTechnical of
\* them, a behavioral candidate in the collected pool.
InjectionScenario ==
    /\ ~use_reranking
    /\ balance_types
    /\ is_role_query(query)
    /\ Len(reranked_results) >= MinTechnical
    /\ \A i \in 1..Len(reranked_results) : Technical(reranked_results[i])
    /\ \E n \in 1..Len(all_candidates) : Behavioral(all_candidates[n])

\* C18: in the scenario of the technical-role injection the list recommend()
\* returns has top_k entries at most and holds a behavioral candidate.
C18_BehavioralInjected ==
    (Returned /\ InjectionScenario)
        => /\ Len(result) <= top_k
           /\ \E i \in 1..Len(result) : Behavioral(result[i])

\* The scenario with 9 technical top results: a behavioral candidate of the
\* pool is in the returned list.
C18_Witness ==
    /\ Returned
    /\ InjectionScenario
    /\ Len(reranked_results) = MinTechnical + 1
    /\ \E i \in 1..Len(result) : Behavioral(result[i])

\* C19 (as claimed): after a successful rerank of N candidates, the candidate
\* at position p of the reordered list has rerank_position p and
\* rerank_score N - p + 1.
C19_PositionAndScoreFromN ==
    rerank_ok =>
        LET N == Len(candidates_for_reranking) IN
        /\ Len(reranked) = N
        /\ \A p \in 1..Len(reranked) :
              /\ reranked[p].rerank_position = p
              /\ reranked[p].rerank_score = N - p + 1

\* C19 (amended): after a successful rerank of N candidates whose parsed
\* ranking holds R indices, the reordered list has N entries; its first R
\* are the ranked candidates, the one at position p with rerank_position p
\* and rerank_score R - p + 1; the others follow in their original order,
\* each with rerank_position R + 1 and rerank_score 0.
C19_PositionAndScoreFromRanking ==
    rerank_ok =>
        LET N == Len(candidates_for_reranking)
            R == Len(ranking_indices)
        IN  /\ Len(reranked) = N
            /\ \A p \in 1..Len(reranked) :
                  IF p <= R
                  THEN /\ SameAssessment(reranked[p],
                               candidates_for_reranking[ranking_indices[p] + 1])
                       /\ reranked[p].rerank_position = p
                       /\ reranked[p].rerank_score = R - p + 1
                  ELSE /\ reranked[p].rerank_position = R + 1
                       /\ reranked[p].rerank_score = 0
            /\ \A p, q \in (R + 1)..Len(reranked) :
                  p < q => reranked[p].rec < reranked[q].rec

\* A partial ranking was accepted: two of three candidates ranked, the third
\* appended with score 0.
C19_Witness ==
    /\ rerank_ok
    /\ Len(ranking_indices) < Len(candidates_for_reranking)
    /\ Len(reranked) = Len(candidates_for_reranking)
    /\ reranked[Len(reranked)].rerank_score = 0
    /\ reranked[1].rerank_score = Len(ranking_indices)

\* The response once it is stripped of surrounding spaces, of a prefix word
\* and of brackets.
CleanedResponse == RemoveBrackets(StripPrefix(Strip(response)))

\* t reads as two or more integers separated by commas (spaces allowed
\* around the commas): it starts and ends with a digit, holds digits, commas
\* and spaces only, and each stretch between two integers holds one comma.
IsRunText(t) ==
    /\ t # <<>>
    /\ IsDigit(t[1])
    /\ IsDigit(t[Len(t)])
    /\ \A i \in 1..Len(t) : IsDigit(t[i]) \/ t[i] = "," \/ IsSpace(t[i])
    /\ \E i \in 1..Len(t) : t[i] = ","
    /\ \A i, j \in 2..(Len(t) - 1) :
          (/\ i <= j
           /\ IsDigit(t[i - 1])
           /\ IsDigit(t[j + 1])
           /\ \A k \in i..j : ~IsDigit(t[k]))
              => Cardinality({k \in i..j : t[k] = ","}) = 1

\* The places <<i, j>> of the runs of c.
RunsOf(c) ==
    {ij \in (1..Len(c)) \X (1..Len(c)) :
        ij[1] <= ij[2] /\ IsRunText(SubSeq(c, ij[1], ij[2]))}

\* The first run of c: it starts leftmost and reaches as far as it can.
FirstRunOf(c) ==
    LET first == CHOOSE ij \in RunsOf(c) :
                     \A other \in RunsOf(c) :
                         \/ ij[1] < other[1]
                         \/ (ij[1] = other[1] /\ ij[2] >= other[2])
    IN  SubSeq(c, first[1], first[2])

\* The places where an integer of t starts, and where it ends.
IntegerStarts(t) ==
    {i \in 1..Len(t) : IsDigit(t[i]) /\ (i = 1 \/ ~IsDigit(t[i - 1]))}

IntegerEnd(t, i) ==
    CHOOSE j \in i..Len(t) :
        /\ \A k \in i..j : IsDigit(t[k])
        /\ j = Len(t) \/ ~IsDigit(t[j + 1])

\* The integer that starts at i touches no letter.
StandsAlone(t, i) ==
    /\ i = 1 \/ ~IsWordChar(t[i - 1])
    /\ IntegerEnd(t, i) = Len(t) \/ ~IsWordChar(t[IntegerEnd(t, i) + 1])

\* The members of a set of numbers in ascending order.
Ascending(S) ==
    [n \in 1..Cardinality(S) |->
        CHOOSE x \in S : Cardinality({y \in S : y < x}) = n - 1]

\* The integers of t that start at the places of `starts`, in text order.
IntegersAt(t, starts) ==
    LET at == Ascending(starts)
    IN  [n \in 1..Len(at) |-> DecimalValue(SubSeq(t, at[n], IntegerEnd(t, at[n])))]

\* vals without its values outside [1, n] and without repeats, in the order
\* of first occurrence.
FirstValidOccurrences(vals, n) ==
    LET keep == Ascending({i \in 1..Len(vals) :
                              /\ vals[i] >= 1
                              /\ vals[i] <= n
                              /\ \A j \in 1..(i - 1) : vals[j] # vals[i]})
    IN  [m \in 1..Len(keep) |-> vals[keep[m]]]

\* The parsed ranking, as the 1-based values read in the response.
ParsedRanking == [p \in 1..Len(ranking_indices) |-> ranking_indices[p] + 1]

\* C20 (as claimed): the parsed ranking is the integers of the first
\* comma-separated run of the response, without the values outside [1, N]
\* and without repeats, in the order of first occurrence.
C20_RankingIsFirstRun ==
    llm = "returned" =>
        LET c == CleanedResponse
            N == Len(candidates_for_reranking)
        IN  ParsedRanking =
                IF RunsOf(c) # {}
                THEN FirstValidOccurrences(
                         IntegersAt(FirstRunOf(c), IntegerStarts(FirstRunOf(c))), N)
                ELSE <<>>

\* C20 (amended): the parsed ranking is the integers of the first
\* comma-separated run of the cleaned response, or of all its integers that
\* stand alone when it holds no such run, without the values outside [1, N]
\* and without repeats, in the order of first occurrence.
C20_RankingIsFirstRunOrAllIntegers ==
    llm = "returned" =>
        LET c == CleanedResponse
            N == Len(candidates_for_reranking)
        IN  ParsedRanking =
                IF RunsOf(c) # {}
                THEN FirstValidOccurrences(
                         IntegersAt(FirstRunOf(c), IntegerStarts(FirstRunOf(c))), N)
                ELSE FirstValidOccurrences(
                         IntegersAt(c, {i \in IntegerStarts(c) : StandsAlone(c, i)}), N)

\* A response with a run after a lone integer and a repeat inside the run:
\* the ranking is read from the run alone.
C20_Witness ==
    /\ llm = "returned"
    /\ response = <<"2", " ", "1", ",", "1">>
    /\ ParsedRanking = <<1>>

\* The balancer returned a list that is not the one it was given.
BalancerChanged ==
    /\ balance_called
    /\ raised = ""
    /\ balance_out # reranked_results

\* The number of technical candidates of s.
TechnicalCount(s) == Cardinality({i \in 1..Len(s) : Technical(s[i])})

\* C21 (as claimed): _balance_types_light changes the ranked list only if no
\* item carries a rerank score, the query holds a role keyword, no
\* behavioral item is among the ranked results and at least 8 of the ranked
\* results are technical items.
C21_ChangesOnlyWhenAllHold ==
    BalancerChanged
        => /\ ~has_rerank_scores(reranked_results)
           /\ is_role_query(query)
           /\ \A i \in 1..Len(reranked_results) : ~Behavioral(reranked_results[i])
           /\ TechnicalCount(reranked_results) >= MinTechnical

\* The behavioral candidates of the pool that the ranked list does not hold.
BehavioralOutside ==
    {x \in Range(all_candidates) : Behavioral(x) /\ x \notin Range(reranked_results)}

\* The last n entries of the balancer's list are n highest-similarity
\* members of BehavioralOutside, the entries before them are the first
\* top_k - n entries of the ranked list.
TailReplacedBy(n) ==
    LET added == {balance_out[i] : i \in (top_k - n + 1)..top_k} IN
    /\ Len(balance_out) = top_k
    /\ SubSeq(balance_out, 1, top_k - n) = SubSeq(reranked_results, 1, top_k - n)
    /\ Cardinality(added) = n
    /\ added \subseteq BehavioralOutside
    /\ \A x \in BehavioralOutside \ added : \A y \in added :
          y.similarity >= x.similarity

\* C22: whenever _balance_types_light changes its input, it keeps the first
\* top_k - n entries of the ranked list in their order and replaces the last
\* n, n <= 2, by the n highest-similarity behavioral candidates of the pool
\* that the ranked list does not hold; the result is as long as the input
\* and holds no url twice.
C22_TailReplacedByBehavioral ==
    BalancerChanged
        => /\ \E n \in 1..MaxAdd : TailReplacedBy(n)
           /\ Len(balance_out) = Len(reranked_results)
           /\ ~HasDuplicateUrl(balance_out)

\* The balancer had three behavioral candidates of different similarity to
\* choose from and added two.
C22_Witness ==
    /\ BalancerChanged
    /\ Cardinality(BehavioralOutside) = MaxAdd + 1
    /\ \A x, y \in BehavioralOutside : x # y => x.similarity # y.similarity
    /\ TailReplacedBy(MaxAdd)

\* C23 (as claimed): without rerank scores, when the ranked results hold both
\* a technical item and a behavioral item, _balance_types_light returns the
\* list it was given, whatever the query and the pool.
C23_BothCategoriesUnchanged ==
    (/\ balance_called
     /\ raised = ""
     /\ ~has_rerank_scores(reranked_results)
     /\ \E i \in 1..Len(reranked_results) : Technical(reranked_results[i])
     /\ \E i \in 1..Len(reranked_results) : Behavioral(reranked_results[i]))
    => balance_out = reranked_results

\* C24 (as claimed): within one recommend() invocation the embedding
\* provider is called at most once and the LLM provider at most once.
C24_SingleAttempts ==
    /\ embed_calls <= 1
    /\ llm_calls <= 1

\* The place of a position of recommend() in the order of its steps:
\* entry, EMBED, COLLECT, RERANK (or its plain-similarity substitute), the
\* wait for the LLM, the fallback after a timeout, BALANCE with TRUNCATE,
\* RETURN.
StepRank(p) ==
    CASE p = "new" -> 0
      [] p = "ready" -> 1
      [] p = "search" -> 2
      [] p \in {"rerank", "sort"} -> 3
      [] p = "wait" -> 4
      [] p = "shutdown" -> 5
      [] p = "balance" -> 6
      [] p = "done" -> 7

\* One step of recommend(): the position moves forward, and each effect
\* belongs to one step.
StepsInOrder ==
    /\ pc' # pc => StepRank(pc') > StepRank(pc)
    /\ embedding' # embedding => (pc = "ready" /\ pc' = "search")
    /\ hits' # hits => pc = "search"
    /\ all_candidates' # all_candidates => (pc = "search" /\ embedding # "none")
    /\ llm_calls' # llm_calls => (pc = "rerank" /\ use_reranking)
    /\ reranked_results' # reranked_results
          => (pc \in {"rerank", "sort", "wait", "shutdown"} /\ pc' = "balance")
    /\ balance_called' # balance_called
          => (pc = "balance" /\ balance_types /\ llm # "running")
    /\ result' # result => (pc = "balance" /\ pc' = "done")

\* What the flags imply at any time.
FlagsObeyed ==
    /\ llm_calls > 0 => use_reranking
    /\ llm_calls <= 1
    /\ balance_called => (balance_types /\ pc = "done")
    /\ hits # <<>> =>
          Len(hits) = IF use_reranking THEN top_k * 5
                      ELSE IF balance_types THEN top_k * 3 ELSE top_k
    /\ Returned => Len(result) <= top_k

\* C25: recommend() runs EMBED, COLLECT, RERANK, BALANCE, TRUNCATE, RETURN in
\* this order, no step twice; the LLM is invoked only when use_reranking is
\* true, the balancer runs only when balance_types is true and after the
\* rerank step has finished, and the over-fetch is 5 * top_k with
\* re-ranking, 3 * top_k with balancing only, top_k otherwise.
C25_FixedStepOrder == []FlagsObeyed /\ [][StepsInOrder]_vars

\* A call that went through every step: the LLM answered, the balancer ran,
\* top_k items were returned out of 5 * top_k hits.
C25_Witness ==
    /\ Returned
    /\ use_reranking
    /\ llm = "returned"
    /\ balance_called
    /\ Len(hits) = top_k * 5
    /\ Len(result) = top_k

\* What recommend() returns when it runs alone on metadata md and index
\* vecs, with the arguments, the embedding and the LLM outcome of
\* invocation c.
RecommendAlone(md, vecs, c) ==
    LET hs == Search(vecs, c.embedding,
                     search_k_of(c.top_k, c.use_reranking, c.balance_types))
        all == Collect(hs, md).list
        pool == CandidatesForReranking(all, c.top_k)
        ranked_list ==
            IF c.use_reranking /\ Len(pool) > 0
            THEN IF c.llm = "returned"
                 THEN RerankFromResponse(pool, c.top_k, c.response)
                 ELSE SimilarityFallback(pool, c.top_k)
            ELSE Slice(SortBySimilarityDesc(pool), c.top_k)
    IN  IF c.balance_types /\ Len(all) > Len(ranked_list)
        THEN FinalResult(balance_types_light(ranked_list, all, c.query, c.top_k).list,
                         c.top_k)
        ELSE Slice(ranked_list, c.top_k)

\* C26: recommend() leaves the loaded index and every metadata record as
\* they were loaded, and whatever the interleaving of the invocations that
\* run on one recommender, each returns what it would return alone.
C26_InvocationsIndependent ==
    /\ metadata = CleanMetadata(diskMetadata)
    /\ vectors = [i \in 1..Len(SharedCatalog) |-> SharedCatalog[i].score]
    /\ \A t \in DOMAIN calls :
          calls[t].pc = "done"
              => /\ calls[t].raised = ""
                 /\ calls[t].result =
                        RecommendAlone(CleanMetadata(diskMetadata), vectors, calls[t])

\* The LLM call of one invocation is in flight while another invocation has
\* returned, through a successful re-ranking, a record that the first holds
\* in its pool with another similarity.
C26_Witness ==
    \E s, t \in DOMAIN calls :
        /\ calls[s].pc = "wait"
        /\ calls[s].llm = "running"
        /\ calls[t].pc = "done"
        /\ \E i \in 1..Len(calls[t].result),
              j \in 1..Len(calls[s].candidates_for_reranking) :
              /\ calls[t].result[i].rec = calls[s].candidates_for_reranking[j].rec
              /\ calls[t].result[i].similarity
                     # calls[s].candidates_for_reranking[j].similarity
              /\ calls[t].result[i].rerank_score > 0

\* Every invocation has returned, one of them after its LLM call timed out.
C26_WitnessTimedOut ==
    /\ \A t \in DOMAIN calls : calls[t].pc = "done" /\ calls[t].raised = ""
    /\ \E s, t \in DOMAIN calls :
          /\ calls[s].timed_out
          /\ calls[t].llm = "returned"
          /\ calls[s].result # <<>>
          /\ calls[t].result # <<>>


\* The rows of the build's catalog whose embedding failed in every way of calling.
FailedRow(i) == text_embedding(build.providers[i]) = "zero"

\* The index built in memory has one vector per row, vector i computed from row i.
BuiltIndexAligned ==
    build.pc \in {"built", "index_written", "saved"} =>
        /\ Len(build.index) = Len(build.df)
        /\ Len(build.metadata) = Len(build.df)
        /\ \A i \in 1..Len(build.index) :
              /\ build.index[i].row = i
              /\ (build.index[i].kind = "zero") <=> FailedRow(i)

\* The files saved hold one vector per metadata record, vector i being that of
\* record i, the zero vector where the embedding failed.
SavedIndexAligned ==
    build.pc = "saved" =>
        /\ Len(vectors) = Len(diskMetadata)
        /\ Len(diskMetadata) = Len(build.df)
        /\ \A i \in 1..Len(diskMetadata) :
              /\ diskMetadata[i].url = build.df[i].url
              /\ i <= Len(vectors) =>
                    vectors[i] = (IF FailedRow(i) THEN 0 ELSE build.df[i].score)

\* C27: the index build produces exactly one vector per catalog record, vector
\* i belonging to metadata record i, also when the embedding call fails for
\* some records: a failed record gets the zero vector in its own position.
C27_OneVectorPerRecord == BuiltIndexAligned /\ SavedIndexAligned

\* A build has saved a catalog whose first record failed and whose second did not.
C27_Witness ==
    /\ build.pc = "saved"
    /\ Len(build.df) >= 2
    /\ FailedRow(1)
    /\ ~FailedRow(2)
    /\ Len(vectors) = Len(diskMetadata)
    /\ vectors[1] = 0
    /\ vectors[2] = build.df[2].score


\* The candidates the response ranked, by their place among the candidates.
RankedRecs ==
    {candidates_for_reranking[ranking_indices[p] + 1].rec :
        p \in 1..Len(ranking_indices)}

\* C28: for top_k >= 1, every candidate a successful rerank returns was
\* ranked by the response: its rerank_score is positive and its
\* rerank_position is its place in the returned list; the candidates the
\* response left out (rerank_score 0) are not returned.
C28_ReturnedWereRanked ==
    (rerank_ok /\ top_k >= 1) =>
        /\ \A p \in 1..Len(reranked_results) :
              /\ reranked_results[p].rec \in RankedRecs
              /\ reranked_results[p].rerank_score > 0
              /\ reranked_results[p].rerank_position = p
        /\ \A q \in 1..Len(reranked) :
              reranked[q].rerank_score = 0 =>
                  \A p \in 1..Len(reranked_results) :
                      reranked_results[p].rec # reranked[q].rec

\* A response that ranked just top_k of the candidates was accepted: the
\* candidate it left out has score 0 and is not returned.
C28_Witness ==
    /\ rerank_ok
    /\ top_k >= 2
    /\ Len(ranking_indices) = top_k
    /\ Len(candidates_for_reranking) > top_k
    /\ Len(reranked_results) = top_k
    /\ reranked[Len(reranked)].rerank_score = 0
    /\ reranked_results[top_k].rerank_score = 1


\* C29: for top_k >= 1, whatever the flags and whatever the LLM did, the list
\* recommend() returns has min(top_k, number of candidates collected)
\* entries.
C29_ReturnsAllSlots ==
    (Returned /\ index_loaded /\ top_k >= 1) =>
        Len(result) = Min(top_k, Len(all_candidates))

\* The balancer replaced the tail of a full list and the list kept its length.
C29_Witness ==
    /\ Returned
    /\ balance_called
    /\ balance_out # reranked_results
    /\ Len(all_candidates) > top_k
    /\ Len(result) = top_k

\* A response that ranked some of the candidates only was accepted, with
\* one candidate more than top_k collected; top_k are returned.
C29_WitnessPartialRanking ==
    /\ Returned
    /\ use_reranking
    /\ rerank_ok
    /\ Len(all_candidates) = top_k + 1
    /\ Len(ranking_indices) < Len(candidates_for_reranking)
    /\ Len(result) = top_k


\* The record carries no url: no entry, the empty string, or None.
LacksUrl(u) == u \in {MissingUrl, NoUrl, NoneUrl}

\* The places of a list of candidates whose record carries no url.
WithoutUrl(s) == {n \in 1..Len(s) : LacksUrl(s[n].url)}

\* The hits that name a record without url, as positions of hits.
UrlLessHits == {i \in ResolvedHits : LacksUrl(UrlOfHit(i))}

\* At most one candidate of s is without url, and it is the one collected.
AtMostTheCollectedOne(s) ==
    /\ Cardinality(WithoutUrl(s)) <= 1
    /\ \A n \in WithoutUrl(s) : \E m \in WithoutUrl(all_candidates) :
          s[n].rec = all_candidates[m].rec

\* C30: the records without a url share one identity key: the collected
\* candidates hold at most one of them, the one of highest similarity among
\* the hits (the first such hit), and so do the pool, the re-ranked list and
\* the list returned.
C30_OneCandidateWithoutUrl ==
    /\ Cardinality(WithoutUrl(all_candidates)) <= 1
    /\ \A n \in WithoutUrl(all_candidates) :
          /\ \A i \in UrlLessHits : all_candidates[n].similarity >= hits[i].similarity
          /\ \E i \in UrlLessHits :
                /\ all_candidates[n].rec = PyIndex(metadata, hits[i].idx)
                /\ \A j \in UrlLessHits : i <= j
    /\ (all_candidates # <<>> /\ UrlLessHits # {}) => WithoutUrl(all_candidates) # {}
    /\ AtMostTheCollectedOne(candidates_for_reranking)
    /\ AtMostTheCollectedOne(reranked_results)
    /\ Returned => AtMostTheCollectedOne(result)

\* Two records without url, read from a column named url, were both hit
\* with different similarities; the list returned had room for both and
\* holds the better one only.
C30_Witness ==
    /\ Returned
    /\ top_k >= 2
    /\ \E i, j \in UrlLessHits :
          /\ i < j
          /\ UrlOfHit(i) = NoneUrl
          /\ UrlOfHit(j) = NoneUrl
          /\ hits[i].similarity > hits[j].similarity
          /\ hits[j].idx >= 0
          /\ Len(result) = 1
          /\ result[1].rec = PyIndex(metadata, hits[i].idx)
          /\ result[1].similarity = hits[i].similarity

\* The same with a column named URL: the key is the empty string.
C30_WitnessUpperCase ==
    /\ Returned
    /\ top_k >= 2
    /\ \E i, j \in UrlLessHits :
          /\ i < j
          /\ UrlOfHit(i) = MissingUrl
          /\ UrlOfHit(j) = MissingUrl
          /\ hits[i].similarity > hits[j].similarity
          /\ Len(result) = 1
          /\ result[1].url = NoUrl
          /\ result[1].rec = PyIndex(metadata, hits[i].idx)

====
